---- MODULE Spec2Model ----
(***************************************************************************)
(* Model of the course record normaliser, CourseDataCleaner, of            *)
(* src/scraping/utils/data_cleaner.py, with the validation rules of        *)
(* src/scraping/config.py.                                                 *)
(*                                                                         *)
(* A Python str is a sequence of characters; a character is a one-letter   *)
(* string, or the name "U+xxxx" of a code point outside ASCII.  A Python   *)
(* value of unknown type (Any) is a tagged record, see PyStr, PyInt, ...   *)
(* A Python dict is a function whose DOMAIN is the set of its keys.        *)
(***************************************************************************)
EXTENDS Integers, Sequences, FiniteSets, TLC

VARIABLES
    courses,            \* the argument of clean_course_data
    cleaned_courses,    \* local of clean_course_data, after step 1
    valid_courses,      \* local of clean_course_data, after step 2
    unique_courses,     \* local of clean_course_data, after step 3
    enhanced_courses,   \* local of clean_course_data, after step 4 (the result)
    validation_stats,   \* self.validation_stats
    pc,                 \* position inside clean_course_data
    exc,                \* the exception that left clean_course_data, or "none"
    valid_pos,          \* history: the position in courses of each valid course
    unique_pos,         \* history: the position in courses of each unique course
    seen_keys,          \* local of the latest call of remove_duplicates
    cleaned_ids,        \* which dict object each element of cleaned_courses is
    outputs,            \* history: the batch and the result of each call that returned
    arg,                \* the argument of a field cleaner called on its own
    ret,                \* the successive results of that field cleaner
    calls               \* the calls of clean_course_data made on this instance

vars == <<courses, cleaned_courses, valid_courses, unique_courses,
          enhanced_courses, validation_stats, pc, exc, valid_pos, unique_pos,
          seen_keys, cleaned_ids, outputs, arg, ret, calls>>

pipeline_vars == <<courses, cleaned_courses, valid_courses, unique_courses,
                   enhanced_courses, validation_stats, pc, exc, valid_pos,
                   unique_pos, seen_keys, cleaned_ids, outputs, calls>>

(***************************************************************************)
(* Bounds of the model.                                                    *)
(***************************************************************************)
MaxTextLen == 5
MaxBatch == 2
MaxNumLen == 3
MaxNum == 630
\* standardize_cao_code is applied to the strs of at most MaxCaoLen characters
MaxCaoLen == 8
\* one instance is called MaxCalls times, on batches of at most MaxAgainBatch records
MaxCalls == 2
MaxAgainBatch == 1
\* a raw duration is made of at most MaxDurationTokens tokens
MaxDurationTokens == 3

(***************************************************************************)
(* Characters.                                                             *)
(***************************************************************************)
LowerSeq == <<"a", "b", "c", "d", "e", "f", "g", "h", "i", "j", "k", "l", "m",
              "n", "o", "p", "q", "r", "s", "t", "u", "v", "w", "x", "y", "z">>
UpperSeq == <<"A", "B", "C", "D", "E", "F", "G", "H", "I", "J", "K", "L", "M",
              "N", "O", "P", "Q", "R", "S", "T", "U", "V", "W", "X", "Y", "Z">>
DigitSeq == <<"0", "1", "2", "3", "4", "5", "6", "7", "8", "9">>

Range(s) == {s[i] : i \in DOMAIN s}

LowerLetters == Range(LowerSeq)
UpperLetters == Range(UpperSeq)
Digits == Range(DigitSeq)

\* the characters \s matches and str.strip() strips (those the model uses)
Whitespace == {" ", "\t", "\n", "\r", "U+00A0"}
IsSpace(c) == c \in Whitespace

\* the characters \w matches (those the model uses)
IsWord(c) == c \in LowerLetters \cup UpperLetters \cup Digits \cup {"_"}

\* str.lower() and str.upper(), character by character
LowerChar(c) ==
    IF c \in UpperLetters
    THEN LowerSeq[CHOOSE i \in DOMAIN UpperSeq : UpperSeq[i] = c]
    ELSE c
UpperChar(c) ==
    IF c \in LowerLetters
    THEN UpperSeq[CHOOSE i \in DOMAIN LowerSeq : LowerSeq[i] = c]
    ELSE c
Lower(s) == [i \in DOMAIN s |-> LowerChar(s[i])]
Upper(s) == [i \in DOMAIN s |-> UpperChar(s[i])]

\* str.strip()
RECURSIVE LStrip(_)
LStrip(s) == IF s # <<>> /\ IsSpace(Head(s)) THEN LStrip(Tail(s)) ELSE s
RECURSIVE RStrip(_)
RStrip(s) ==
    IF s # <<>> /\ IsSpace(s[Len(s)]) THEN RStrip(SubSeq(s, 1, Len(s) - 1)) ELSE s
Strip(s) == RStrip(LStrip(s))

\* str.replace(old, new) for one-character old and new
Replace(s, old, new) == [i \in DOMAIN s |-> IF s[i] = old THEN new ELSE s[i]]

(***************************************************************************)
(* Python values of unknown type.  n is the value of an int or a bool, and *)
(* twice the value of a float (the model's floats are the multiples of     *)
(* one half, plus the infinity and the NaN); s is the value of a str.      *)
(***************************************************************************)
PyNone == [t |-> "none", s |-> <<>>, n |-> 0]
PyStr(s) == [t |-> "str", s |-> s, n |-> 0]
PyInt(n) == [t |-> "int", s |-> <<>>, n |-> n]
PyBool(b) == [t |-> "bool", s |-> <<>>, n |-> IF b THEN 1 ELSE 0]
PyFloat(halves) == [t |-> "float", s |-> <<>>, n |-> halves]
PyInf == [t |-> "inf", s |-> <<>>, n |-> 0]
PyNan == [t |-> "nan", s |-> <<>>, n |-> 0]

\* bool(v): the truth value "if not v" tests
Truthy(v) ==
    CASE v.t = "none" -> FALSE
      [] v.t = "str" -> v.s # <<>>
      [] v.t \in {"int", "bool", "float"} -> v.n # 0
      [] OTHER -> TRUE

\* str(n) for an int n
RECURSIVE NatStr(_)
NatStr(n) ==
    IF n < 10 THEN <<DigitSeq[n + 1]>>
    ELSE NatStr(n \div 10) \o <<DigitSeq[(n % 10) + 1]>>
IntStr(n) == IF n < 0 THEN <<"-">> \o NatStr(-n) ELSE NatStr(n)

\* str(v)
StrOf(v) ==
    CASE v.t = "str" -> v.s
      [] v.t = "int" -> IntStr(v.n)
      [] v.t = "bool" -> IF v.n = 1 THEN <<"T", "r", "u", "e">>
                         ELSE <<"F", "a", "l", "s", "e">>
      [] v.t = "float" ->
            (IF v.n < 0 THEN <<"-">> ELSE <<>>)
            \o NatStr((IF v.n < 0 THEN -v.n ELSE v.n) \div 2)
            \o <<".", IF v.n % 2 = 0 THEN "0" ELSE "5">>
      [] v.t = "inf" -> <<"i", "n", "f">>
      [] v.t = "nan" -> <<"n", "a", "n">>
      [] OTHER -> <<"N", "o", "n", "e">>

(***************************************************************************)
(* clean_text_field                                                        *)
(***************************************************************************)
\* re.sub(r'\s+', ' ', text)
\* (each run of whitespace becomes one space: the first character of a run is
\* kept, as a space, and the rest of the run is dropped)
CollapseWhitespace(s) ==
    LET kept == SelectSeq([i \in DOMAIN s |-> i],
                          LAMBDA i : ~IsSpace(s[i]) \/ i = 1 \/ ~IsSpace(s[i - 1]))
    IN  [k \in DOMAIN kept |-> IF IsSpace(s[kept[k]]) THEN " " ELSE s[kept[k]]]

\* the six text.replace calls, in the order of the code
FixEncoding(s) ==
    Replace(Replace(Replace(Replace(Replace(Replace(s,
        "U+00A0", " "), "U+2019", "'"), "U+201C", "\""), "U+201D", "\""),
        "U+2013", "-"), "U+2014", "-")

\* mutant: the '|' added to the character class
IsAllowed_Pipe(c) ==
    IsWord(c) \/ IsSpace(c) \/ c \in {"-", ".", ",", "(", ")", "&", "/", "|"}

\* the characters [\w\s\-.,()&/] matches
IsAllowed(c) == IsWord(c) \/ IsSpace(c) \/ c \in {"-", ".", ",", "(", ")", "&", "/"}

\* mutant: the apostrophe and the '|' added to the character class
RemoveUnwanted_KeepsQuote(s) ==
    SelectSeq(s, LAMBDA c : IsAllowed(c) \/ c \in {"'", "|"})

\* re.sub(r'[^\w\s\-.,()&/]', '', text)
RemoveUnwanted(s) == SelectSeq(s, IsAllowed)

clean_text_field(text) ==
    IF ~Truthy(text) THEN <<>>
    ELSE Strip(RemoveUnwanted(FixEncoding(CollapseWhitespace(Strip(StrOf(text))))))

(***************************************************************************)
(* config.VALIDATION_RULES                                                 *)
(***************************************************************************)
VALIDATION_RULES ==
    [required_fields |-> <<"name", "nfq_level">>,
     min_description_length |-> 5,
     valid_nfq_levels |-> {5, 6, 7, 8, 9, 10},
     max_course_name_length |-> 200,
     min_course_name_length |-> 3]

(***************************************************************************)
(* int(v), and the numeric cleaners.  A call either returns a value or     *)
(* leaves with an exception.                                               *)
(***************************************************************************)
Returned(v) == [exc |-> "none", v |-> v]
Raised(e) == [exc |-> e, v |-> 0]

DigitVal(c) == (CHOOSE i \in DOMAIN DigitSeq : DigitSeq[i] = c) - 1

\* the value of a digit string in which single underscores may separate digits
RECURSIVE DigitsVal(_, _)
DigitsVal(s, acc) ==
    IF s = <<>> THEN acc
    ELSE IF Head(s) = "_" THEN DigitsVal(Tail(s), acc)
    ELSE DigitsVal(Tail(s), 10 * acc + DigitVal(Head(s)))

\* int(s) for a str s: surrounding whitespace, an optional sign, digits
ParseInt(s) ==
    LET t == Strip(s)
        signed == t # <<>> /\ Head(t) \in {"+", "-"}
        body == IF signed THEN Tail(t) ELSE t
        wellFormed ==
            /\ body # <<>>
            /\ \A i \in DOMAIN body : body[i] \in Digits \cup {"_"}
            /\ body[1] \in Digits
            /\ body[Len(body)] \in Digits
            /\ \A i \in 1..(Len(body) - 1) : ~(body[i] = "_" /\ body[i + 1] = "_")
        magnitude == DigitsVal(body, 0)
    IN  IF ~wellFormed THEN Raised("ValueError")
        ELSE Returned(IF signed /\ Head(t) = "-" THEN -magnitude ELSE magnitude)

\* int(v)
IntOf(v) ==
    CASE v.t \in {"int", "bool"} -> Returned(v.n)
      [] v.t = "float" ->
            Returned(IF v.n < 0 THEN -((-v.n) \div 2) ELSE v.n \div 2)
      [] v.t = "inf" -> Raised("OverflowError")
      [] v.t = "nan" -> Raised("ValueError")
      [] v.t = "str" -> ParseInt(v.s)
      [] OTHER -> Raised("TypeError")

\* except (ValueError, TypeError)
Caught == {"ValueError", "TypeError"}

\* mutant: the parsed level returned without the membership test
clean_nfq_level_NoSetCheck(level) ==
    IF ~Truthy(level) THEN Returned(8)
    ELSE LET r == IntOf(level)
         IN  IF r.exc = "none" THEN Returned(r.v)
             ELSE IF r.exc \in Caught THEN Returned(8) ELSE r

clean_nfq_level(level) ==
    IF ~Truthy(level) THEN Returned(8)
    ELSE LET r == IntOf(level)
         IN  IF r.exc = "none"
             THEN IF r.v \in VALIDATION_RULES.valid_nfq_levels
                  THEN Returned(r.v) ELSE Returned(8)
             ELSE IF r.exc \in Caught THEN Returned(8) ELSE r

\* mutant: the upper end of the range not tested
clean_points_NoUpperBound(points) ==
    IF ~Truthy(points) THEN Returned(0)
    ELSE LET r == IntOf(points)
         IN  IF r.exc = "none"
             THEN IF 0 <= r.v THEN Returned(r.v) ELSE Returned(0)
             ELSE IF r.exc \in Caught THEN Returned(0) ELSE r

clean_points(points) ==
    IF ~Truthy(points) THEN Returned(0)
    ELSE LET r == IntOf(points)
         IN  IF r.exc = "none"
             THEN IF 0 <= r.v /\ r.v <= 625 THEN Returned(r.v) ELSE Returned(0)
             ELSE IF r.exc \in Caught THEN Returned(0) ELSE r

\* mutant: zero accepted as a college id
clean_college_id_ZeroAllowed(college_id) ==
    IF ~Truthy(college_id) THEN Returned(1)
    ELSE LET r == IntOf(college_id)
         IN  IF r.exc = "none"
             THEN IF r.v >= 0 THEN Returned(r.v) ELSE Returned(1)
             ELSE IF r.exc \in Caught THEN Returned(1) ELSE r

clean_college_id(college_id) ==
    IF ~Truthy(college_id) THEN Returned(1)
    ELSE LET r == IntOf(college_id)
         IN  IF r.exc = "none"
             THEN IF r.v > 0 THEN Returned(r.v) ELSE Returned(1)
             ELSE IF r.exc \in Caught THEN Returned(1) ELSE r

(***************************************************************************)
(* Dicts.                                                                  *)
(***************************************************************************)
\* d.get(k, default)
Get(d, k, default) == IF k \in DOMAIN d THEN d[k] ELSE default

\* d[k] = v
SetKey(d, k, v) == [x \in DOMAIN d \cup {k} |-> IF x = k THEN v ELSE d[x]]

(***************************************************************************)
(* standardize_cao_code                                                    *)
(***************************************************************************)
AllIn(s, from, to, class) == \A i \in from..to : s[i] \in class

\* ([A-Z]{2,4})(\d{3,4}) tried at position i: the repetitions are greedy, so
\* the engine tries 4, 3, 2 letters and, for each, 4 then 3 digits
CaoShapes == <<<<4, 4>>, <<4, 3>>, <<3, 4>>, <<3, 3>>, <<2, 4>>, <<2, 3>>>>

CaoFitsAt(s, i, shape) ==
    /\ i + shape[1] + shape[2] - 1 <= Len(s)
    /\ AllIn(s, i, i + shape[1] - 1, UpperLetters)
    /\ AllIn(s, i + shape[1], i + shape[1] + shape[2] - 1, Digits)

\* re.search(r'([A-Z]{2,4})(\d{3,4})', s): the leftmost start, then the first
\* shape that fits there; found = FALSE when there is no match
SearchCao(s) ==
    LET starts == {i \in DOMAIN s : \E k \in DOMAIN CaoShapes : CaoFitsAt(s, i, CaoShapes[k])}
    IN  IF starts = {} THEN [found |-> FALSE, start |-> 0, letters |-> 0, digits |-> 0]
        ELSE LET i == CHOOSE x \in starts : \A y \in starts : x <= y
                 k == CHOOSE x \in DOMAIN CaoShapes :
                        /\ CaoFitsAt(s, i, CaoShapes[x])
                        /\ \A y \in 1..(x - 1) : ~CaoFitsAt(s, i, CaoShapes[y])
             IN  [found |-> TRUE, start |-> i,
                  letters |-> CaoShapes[k][1], digits |-> CaoShapes[k][2]]

IsAlnumUpper(c) == c \in UpperLetters \cup Digits

\* mutant: the search made on the text as given, not on its uppercase form
standardize_cao_code_NoUpper(code) ==
    IF ~Truthy(code) THEN <<>>
    ELSE LET c == Strip(StrOf(code))
             m == SearchCao(c)
         IN  IF m.found
             THEN SubSeq(c, m.start, m.start + m.letters - 1)
                  \o SubSeq(c, m.start + m.letters, m.start + m.letters + m.digits - 1)
             ELSE SelectSeq(Upper(c), IsAlnumUpper)

\* mutant: the fallback returns the text without removing anything
standardize_cao_code_FallbackKeepsAll(code) ==
    IF ~Truthy(code) THEN <<>>
    ELSE LET c == Upper(Strip(StrOf(code)))
             m == SearchCao(c)
         IN  IF m.found
             THEN SubSeq(c, m.start, m.start + m.letters - 1)
                  \o SubSeq(c, m.start + m.letters, m.start + m.letters + m.digits - 1)
             ELSE c

standardize_cao_code(code) ==
    IF ~Truthy(code) THEN <<>>
    ELSE LET c == Upper(Strip(StrOf(code)))
             m == SearchCao(c)
         IN  IF m.found
             THEN SubSeq(c, m.start, m.start + m.letters - 1)
                  \o SubSeq(c, m.start + m.letters, m.start + m.letters + m.digits - 1)
             ELSE SelectSeq(c, IsAlnumUpper)

(***************************************************************************)
(* clean_single_course                                                     *)
(***************************************************************************)
text_fields == {"name", "description", "duration", "tags", "entry_requirements",
                "career_info"}

\* The dicts are objects: heap is the sequence of the dicts alive, a dict is
\* named by its position in heap, and a variable of the code holds such a
\* position.

\* mutant: no new dict, the result is the dict itself
dict_copy_Aliased(heap, d) == [heap |-> heap, ref |-> d]

\* d.copy(): a new dict with the keys and values of d
dict_copy(heap, d) == [heap |-> Append(heap, heap[d]), ref |-> Len(heap) + 1]

\* d[key] = value
setitem(heap, d, key, value) == [heap EXCEPT ![d] = SetKey(@, key, value)]

\* for field in text_fields: if field in cleaned:
\*     cleaned[field] = self.clean_text_field(cleaned[field])
clean_text_fields_in(heap, cleaned) ==
    [heap EXCEPT ![cleaned] =
       [k \in DOMAIN @ |->
          IF k \in text_fields THEN PyStr(clean_text_field(@[k])) ELSE @[k]]]

\* if 'cao_code' in cleaned:
\*     cleaned['cao_code'] = self.standardize_cao_code(cleaned['cao_code'])
clean_cao_code_in(heap, cleaned) ==
    IF "cao_code" \in DOMAIN heap[cleaned]
    THEN setitem(heap, cleaned, "cao_code",
                 PyStr(standardize_cao_code(heap[cleaned].cao_code)))
    ELSE heap

\* the cleaner of a numeric field
numeric_cleaner(key, value) ==
    CASE key = "nfq_level" -> clean_nfq_level(value)
      [] key = "points" -> clean_points(value)
      [] key = "college_id" -> clean_college_id(value)

\* cleaned[key] = r, where r is what the cleaner of the field gave: the
\* assignment is not made when the cleaner raised
store_number_in(st, cleaned, key, r) ==
    IF r.exc = "none"
    THEN [exc |-> "none", heap |-> setitem(st.heap, cleaned, key, PyInt(r.v))]
    ELSE [exc |-> r.exc, heap |-> st.heap]

\* if key in cleaned: cleaned[key] = <its cleaner>(cleaned[key]), from the
\* point st the body has reached: nothing is done once a cleaner has raised
clean_number_in(st, cleaned, key) ==
    IF st.exc # "none" \/ key \notin DOMAIN st.heap[cleaned] THEN st
    ELSE store_number_in(st, cleaned, key,
                         numeric_cleaner(key, st.heap[cleaned][key]))

\* return cleaned, unless a cleaner raised
return_in(st, d) ==
    [exc |-> st.exc, heap |-> st.heap, ref |-> IF st.exc = "none" THEN d ELSE 0]

\* the body of clean_single_course, once cleaned is made
clean_fields_in(heap, cleaned) ==
    return_in(
        clean_number_in(
            clean_number_in(
                clean_number_in(
                    [exc |-> "none",
                     heap |-> clean_cao_code_in(clean_text_fields_in(heap, cleaned),
                                                cleaned)],
                    cleaned, "nfq_level"),
                cleaned, "points"),
            cleaned, "college_id"),
        cleaned)

\* called with the result of d.copy()
after_copy_clean(c) == clean_fields_in(c.heap, c.ref)

\* clean_single_course on the dict course of heap: the heap it leaves and
\* the dict it returns, or the exception of the first cleaner that raises
\* (the assignments made before it stay)
clean_single_course_in(heap, course) == after_copy_clean(dict_copy(heap, course))

\* the dict returned, as a value, or the exception raised
outcome_of(r) ==
    IF r.exc = "none" THEN Returned(r.heap[r.ref]) ELSE Raised(r.exc)

\* the cleaned copy of a dict with the keys and values of course, or the
\* exception of the first cleaner that raises
clean_single_course(course) == outcome_of(clean_single_course_in(<<course>>, 1))

\* the list comprehension of step 1 from position i: the heap it leaves and
\* the dicts it collected, or the exception that ended it
RECURSIVE CleanFrom(_, _, _, _)

\* the comprehension after clean_single_course gave r for cs[i]
CleanNext(r, cs, i, collected) ==
    IF r.exc # "none"
    THEN [exc |-> r.exc, heap |-> r.heap, refs |-> collected]
    ELSE CleanFrom(r.heap, cs, i + 1, Append(collected, r.ref))

CleanFrom(heap, cs, i, collected) ==
    IF i > Len(cs) THEN [exc |-> "none", heap |-> heap, refs |-> collected]
    ELSE CleanNext(clean_single_course_in(heap, cs[i]), cs, i, collected)

(***************************************************************************)
(* validate_course, on a cleaned course (its text fields are str)          *)
(***************************************************************************)
\* sub in s
Contains(s, sub) ==
    \E i \in 1..(Len(s) - Len(sub) + 1) : SubSeq(s, i, i + Len(sub) - 1) = sub

invalid_names ==
    <<<<"a", "b", "o", "u", "t", " ", "u", "s">>,
      <<"c", "o", "n", "t", "a", "c", "t", " ", "u", "s">>,
      <<"h", "e", "l", "p">>,
      <<"p", "r", "i", "v", "a", "c", "y">>,
      <<"c", "o", "o", "k", "i", "e">>,
      <<"a", "c", "c", "e", "s", "s", "i", "b", "i", "l", "i", "t", "y">>,
      <<"t", "e", "r", "m", "s">>>>

\* v in VALIDATION_RULES["valid_nfq_levels"]
InValidNfqLevels(v) ==
    \/ v.t \in {"int", "bool"} /\ v.n \in VALIDATION_RULES.valid_nfq_levels
    \/ v.t = "float" /\ v.n % 2 = 0 /\ (v.n \div 2) \in VALIDATION_RULES.valid_nfq_levels

\* one entry of errors: the message and the value formatted into it (for a
\* missing required field, the name of the field as a one-token str)
Err(msg, val) == [msg |-> msg, val |-> val]

RECURSIVE Flatten(_)
Flatten(ss) == IF ss = <<>> THEN <<>> ELSE Head(ss) \o Flatten(Tail(ss))

Unknown == <<"U", "n", "k", "n", "o", "w", "n">>

\* rule 1: one entry for each required field that is absent or falsy
RequiredErrors(course) ==
    LET missing(field) == field \notin DOMAIN course \/ ~Truthy(course[field])
        required == VALIDATION_RULES.required_fields
    IN  Flatten([i \in DOMAIN required |->
                   IF missing(required[i])
                   THEN <<Err("Missing required field", PyStr(<<required[i]>>))>>
                   ELSE <<>>])

\* mutant: a name of exactly max_course_name_length characters is too long
TooLongErrors_OffByOne(course) ==
    LET name == Get(course, "name", PyStr(<<>>)).s
    IN  IF name # <<>> /\ Len(name) >= VALIDATION_RULES.max_course_name_length
        THEN <<Err("Course name too long", PyInt(Len(name)))>> ELSE <<>>

\* rule 2, upper bound: name and len(name) > max_course_name_length
TooLongErrors(course) ==
    LET name == Get(course, "name", PyStr(<<>>)).s
    IN  IF name # <<>> /\ Len(name) > VALIDATION_RULES.max_course_name_length
        THEN <<Err("Course name too long", PyInt(Len(name)))>> ELSE <<>>

\* rule 2, lower bound: not name or len(name) < min_course_name_length
TooShortErrors(course) ==
    LET name == Get(course, "name", PyStr(<<>>)).s
    IN  IF name = <<>> \/ Len(name) < VALIDATION_RULES.min_course_name_length
        THEN <<Err("Course name too short", PyInt(Len(name)))>> ELSE <<>>

\* mutant: the denylist compared with the name as written, not lowercased
SystemPageErrors_CaseSensitive(course) ==
    LET name == Get(course, "name", PyStr(<<>>)).s
    IN  IF name # <<>>
           /\ \E i \in DOMAIN invalid_names : Contains(name, invalid_names[i])
        THEN <<Err("Not a course entry (system page)", PyNone)>> ELSE <<>>

\* rule 3: any(invalid in name.lower() for invalid in invalid_names)
SystemPageErrors(course) ==
    LET name == Get(course, "name", PyStr(<<>>)).s
    IN  IF name # <<>>
           /\ \E i \in DOMAIN invalid_names : Contains(Lower(name), invalid_names[i])
        THEN <<Err("Not a course entry (system page)", PyNone)>> ELSE <<>>

\* rule 4: nfq_level not in valid_nfq_levels
NfqErrors(course) ==
    LET nfq_level == Get(course, "nfq_level", PyNone)
    IN  IF ~InValidNfqLevels(nfq_level)
        THEN <<Err("Invalid NFQ level", nfq_level)>> ELSE <<>>

\* mutant: validation stops at the first rule that fails
validation_errors_of_FirstRuleOnly(course) ==
    LET all == RequiredErrors(course) \o TooLongErrors(course) \o TooShortErrors(course)
               \o SystemPageErrors(course) \o NfqErrors(course)
    IN  IF all = <<>> THEN <<>> ELSE <<Head(all)>>

\* the list errors that validate_course builds
validation_errors_of(course) ==
    RequiredErrors(course) \o TooLongErrors(course) \o TooShortErrors(course)
    \o SystemPageErrors(course) \o NfqErrors(course)

\* course.get('name', 'Unknown')[:50]
course_name_of(course) ==
    LET name == Get(course, "name", PyStr(Unknown)).s
    IN  SubSeq(name, 1, IF Len(name) < 50 THEN Len(name) ELSE 50)

\* the return value of validate_course
validate_course(course) == validation_errors_of(course) = <<>>

\* [course for course in cleaned_courses if self.validate_course(course)]:
\* the positions kept, and validation_stats["validation_errors"] afterwards
RECURSIVE ValidateFrom(_, _, _, _)
ValidateFrom(cs, i, kept, errors) ==
    IF i > Len(cs) THEN [kept |-> kept, errors |-> errors]
    ELSE IF validate_course(cs[i]) THEN ValidateFrom(cs, i + 1, Append(kept, i), errors)
    ELSE ValidateFrom(cs, i + 1, kept,
             SetKey(errors, course_name_of(cs[i]), validation_errors_of(cs[i])))

(***************************************************************************)
(* remove_duplicates                                                       *)
(***************************************************************************)
\* mutant: the key built from the name alone
DedupKey_NameOnly(course) == Strip(Lower(Get(course, "name", PyStr(<<>>)).s))

\* the key remove_duplicates builds for a course
DedupKey(course) ==
    LET name == Strip(Lower(Get(course, "name", PyStr(<<>>)).s))
        cao_code == Strip(Get(course, "cao_code", PyStr(<<>>)).s)
    IN  IF cao_code # <<>> THEN name \o <<"|">> \o cao_code ELSE name

\* mutant: the membership test in seen_keys left out
IsFirstSeen_IgnoresSeen(key, seen) == key # <<>>

\* whether the loop of remove_duplicates keeps a course, given the keys seen
IsFirstSeen(key, seen) == key # <<>> /\ key \notin seen

\* the loop of remove_duplicates, from position i with the keys in seen: the
\* positions kept, duplicates_count and seen_keys when it ends
RECURSIVE DedupFrom(_, _, _, _, _)
DedupFrom(cs, i, seen, kept, duplicates_count) ==
    IF i > Len(cs)
    THEN [kept |-> kept, duplicates_count |-> duplicates_count,
          seen_keys |-> seen]
    ELSE LET key == DedupKey(cs[i])
         IN  IF IsFirstSeen(key, seen)
             THEN DedupFrom(cs, i + 1, seen \cup {key}, Append(kept, i),
                            duplicates_count)
             ELSE DedupFrom(cs, i + 1, seen, kept, duplicates_count + 1)

\* mutant: unique_courses built by inserting at the front
remove_duplicates_Reversed(cs) ==
    LET r == DedupFrom(cs, 1, {}, <<>>, 0)
    IN  [kept |-> [i \in DOMAIN r.kept |-> r.kept[Len(r.kept) + 1 - i]],
         duplicates_count |-> r.duplicates_count,
         seen_keys |-> r.seen_keys]

\* mutant: duplicates_count is never incremented
remove_duplicates_NoCount(cs) ==
    LET r == DedupFrom(cs, 1, {}, <<>>, 0)
    IN  [kept |-> r.kept, duplicates_count |-> 0, seen_keys |-> r.seen_keys]

remove_duplicates(cs) == DedupFrom(cs, 1, {}, <<>>, 0)

(***************************************************************************)
(* enhance_course_data                                                     *)
(***************************************************************************)
\* \b([A-Z]{2,4}\d{3,4})\b tried at position i with one shape
CaoWordFitsAt(s, i, shape) ==
    /\ CaoFitsAt(s, i, shape)
    /\ (i = 1 \/ ~IsWord(s[i - 1]))
    /\ LET last == i + shape[1] + shape[2] - 1
       IN  last = Len(s) \/ ~IsWord(s[last + 1])

\* mutant: the pattern of standardize_cao_code, without the word boundaries
extract_cao_code_from_name_NoBoundary(name) ==
    IF name = <<>> THEN <<>>
    ELSE LET s == Upper(name)
             m == SearchCao(s)
         IN  IF m.found THEN SubSeq(s, m.start, m.start + m.letters + m.digits - 1)
             ELSE <<>>

extract_cao_code_from_name(name) ==
    IF name = <<>> THEN <<>>
    ELSE LET s == Upper(name)
             starts == {i \in DOMAIN s :
                          \E k \in DOMAIN CaoShapes : CaoWordFitsAt(s, i, CaoShapes[k])}
         IN  IF starts = {} THEN <<>>
             ELSE LET i == CHOOSE x \in starts : \A y \in starts : x <= y
                      k == CHOOSE x \in DOMAIN CaoShapes :
                             /\ CaoWordFitsAt(s, i, CaoShapes[x])
                             /\ \A y \in 1..(x - 1) : ~CaoWordFitsAt(s, i, CaoShapes[y])
                  IN  SubSeq(s, i, i + CaoShapes[k][1] + CaoShapes[k][2] - 1)

stem_keywords ==
    <<<<"e", "n", "g", "i", "n", "e", "e", "r">>,
      <<"c", "o", "m", "p", "u", "t", "e", "r">>,
      <<"s", "c", "i", "e", "n", "c", "e">>,
      <<"t", "e", "c", "h", "n", "o", "l", "o", "g", "y">>,
      <<"m", "a", "t", "h">>,
      <<"p", "h", "y", "s", "i", "c", "s">>,
      <<"c", "h", "e", "m", "i", "s", "t", "r", "y">>,
      <<"b", "i", "o", "l", "o", "g", "y">>,
      <<"d", "a", "t", "a">>>>
business_keywords ==
    <<<<"b", "u", "s", "i", "n", "e", "s", "s">>,
      <<"m", "a", "n", "a", "g", "e", "m", "e", "n", "t">>,
      <<"a", "c", "c", "o", "u", "n", "t", "i", "n", "g">>,
      <<"f", "i", "n", "a", "n", "c", "e">>,
      <<"m", "a", "r", "k", "e", "t", "i", "n", "g">>,
      <<"e", "c", "o", "n", "o", "m", "i", "c", "s">>>>
arts_keywords ==
    <<<<"a", "r", "t">>,
      <<"d", "e", "s", "i", "g", "n">>,
      <<"m", "u", "s", "i", "c">>,
      <<"c", "r", "e", "a", "t", "i", "v", "e">>,
      <<"m", "e", "d", "i", "a">>,
      <<"f", "i", "l", "m">>,
      <<"d", "r", "a", "m", "a">>,
      <<"l", "i", "t", "e", "r", "a", "t", "u", "r", "e">>>>
health_keywords ==
    <<<<"h", "e", "a", "l", "t", "h">>,
      <<"m", "e", "d", "i", "c", "i", "n", "e">>,
      <<"n", "u", "r", "s", "i", "n", "g">>,
      <<"t", "h", "e", "r", "a", "p", "y">>,
      <<"m", "e", "d", "i", "c", "a", "l">>,
      <<"c", "a", "r", "e">>>>
education_keywords ==
    <<<<"e", "d", "u", "c", "a", "t", "i", "o", "n">>,
      <<"t", "e", "a", "c", "h", "i", "n", "g">>,
      <<"e", "a", "r", "l", "y", " ", "l", "e", "a", "r", "n", "i", "n", "g">>,
      <<"c", "h", "i", "l", "d", "c", "a", "r", "e">>>>

\* the tags improve_tags can add, in the order sorted() gives them, each with
\* its keyword list
TagTable ==
    <<[tag |-> <<"A", "r", "t", "s">>, keywords |-> arts_keywords],
      [tag |-> <<"B", "u", "s", "i", "n", "e", "s", "s">>, keywords |-> business_keywords],
      [tag |-> <<"E", "d", "u", "c", "a", "t", "i", "o", "n">>, keywords |-> education_keywords],
      [tag |-> <<"H", "e", "a", "l", "t", "h">>, keywords |-> health_keywords],
      [tag |-> <<"S", "T", "E", "M">>, keywords |-> stem_keywords]>>

General == <<"G", "e", "n", "e", "r", "a", "l">>

\* sep.join(parts)
RECURSIVE Join(_, _)
Join(parts, sep) ==
    IF parts = <<>> THEN <<>>
    ELSE IF Len(parts) = 1 THEN parts[1]
    ELSE parts[1] \o sep \o Join(Tail(parts), sep)

\* any(keyword in content for keyword in keywords)
AnyIn(keywords, content) == \E i \in DOMAIN keywords : Contains(content, keywords[i])

\* the set tags of improve_tags, as the sorted list of its members
MatchedTags(content) ==
    LET pick(row) == AnyIn(row.keywords, content)
        rows == SelectSeq(TagTable, pick)
    IN  [i \in DOMAIN rows |-> rows[i].tag]

\* mutant: the keywords looked for in the text as written, not lowercased
improve_tags_NoLower(course) ==
    LET name == Get(course, "name", PyStr(<<>>)).s
        description == Get(course, "description", PyStr(<<>>)).s
        content == name \o <<" ">> \o description
        tags == MatchedTags(content)
    IN  Join(IF tags = <<>> THEN <<General>> ELSE tags, <<",", " ">>)

improve_tags(course) ==
    LET name == Lower(Get(course, "name", PyStr(<<>>)).s)
        description == Lower(Get(course, "description", PyStr(<<>>)).s)
        content == name \o <<" ">> \o description
        tags == MatchedTags(content)
    IN  Join(IF tags = <<>> THEN <<General>> ELSE tags, <<",", " ">>)

\* re.search(r'(\d+)', s): the first run of digits, <<>> when there is none
FirstDigits(s) ==
    LET at == {i \in DOMAIN s : s[i] \in Digits}
    IN  IF at = {} THEN <<>>
        ELSE LET i == CHOOSE x \in at : \A y \in at : x <= y
                 ends == {j \in i..Len(s) : AllIn(s, i, j, Digits)}
                 j == CHOOSE x \in ends : \A y \in ends : y <= x
             IN  SubSeq(s, i, j)

\* str.title(): a letter that follows a letter is lowered, any other is raised
Title(s) ==
    [i \in DOMAIN s |->
        IF i > 1 /\ s[i - 1] \in LowerLetters \cup UpperLetters
        THEN LowerChar(s[i]) ELSE UpperChar(s[i])]

\* f"{num} Unit{'s' if num > 1 else ''}"
\* mutant: the plural taken from 1 on
Rendered_PluralFromOne(digits, unit) ==
    LET num == DigitsVal(digits, 0)
    IN  NatStr(num) \o <<" ">> \o unit \o (IF num >= 1 THEN <<"s">> ELSE <<>>)

Rendered(digits, unit) ==
    LET num == DigitsVal(digits, 0)
    IN  NatStr(num) \o <<" ">> \o unit \o (IF num > 1 THEN <<"s">> ELSE <<>>)

standardize_duration(duration) ==
    IF duration = <<>> THEN <<>>
    ELSE LET d == Strip(Lower(duration))
             n == FirstDigits(d)
         IN  IF Contains(d, <<"y", "e", "a", "r">>) /\ n # <<>> THEN Rendered(n, <<"Y", "e", "a", "r">>)
             ELSE IF Contains(d, <<"m", "o", "n", "t", "h">>) /\ n # <<>> THEN Rendered(n, <<"M", "o", "n", "t", "h">>)
             ELSE IF Contains(d, <<"w", "e", "e", "k">>) /\ n # <<>> THEN Rendered(n, <<"W", "e", "e", "k">>)
             ELSE Title(d)

\* the characters of the model in ascending code point order
CodePointOrder ==
    <<"\t", "\n", "\r", " ", "\"", "&", "'", "(", ")", "+", ",", "-", ".", "/">>
    \o DigitSeq \o UpperSeq \o <<"_">> \o LowerSeq
    \o <<"|", "U+00A0", "U+2013", "U+2014", "U+2019", "U+201C", "U+201D">>

Ord(c) == CHOOSE i \in DOMAIN CodePointOrder : CodePointOrder[i] = c

\* a < b for two str
\* (a is a proper prefix of b, or a has the smaller character at the first
\* position where they differ)
StrLess(a, b) ==
    LET differ == {i \in DOMAIN a \cap DOMAIN b : a[i] # b[i]}
    IN  IF differ = {} THEN Len(a) < Len(b)
        ELSE LET i == CHOOSE x \in differ : \A y \in differ : x <= y
             IN  Ord(a[i]) < Ord(b[i])

\* sorted(S) for a set of str
RECURSIVE Sorted(_)
Sorted(S) ==
    IF S = {} THEN <<>>
    ELSE LET least == CHOOSE x \in S : \A y \in S \ {x} : StrLess(x, y)
         IN  <<least>> \o Sorted(S \ {least})

\* re.findall(r'\w+', s)
\* (the maximal runs of word characters, in order: one starts at each word
\* character that no word character precedes)
WordsOf(s) ==
    LET starts == SelectSeq([i \in DOMAIN s |-> i],
                            LAMBDA i : IsWord(s[i]) /\ (i = 1 \/ ~IsWord(s[i - 1])))
        end(i) == CHOOSE j \in i..Len(s) :
                     /\ \A x \in i..j : IsWord(s[x])
                     /\ (j = Len(s) \/ ~IsWord(s[j + 1]))
    IN  [k \in DOMAIN starts |-> SubSeq(s, starts[k], end(starts[k]))]

\* s.split(',')
RECURSIVE SplitComma(_, _)
SplitComma(s, part) ==
    IF s = <<>> THEN <<part>>
    ELSE IF Head(s) = "," THEN <<part>> \o SplitComma(Tail(s), <<>>)
    ELSE SplitComma(Tail(s), Append(part, Head(s)))

stop_words ==
    {<<"t", "h", "e">>,
     <<"a", "n", "d">>,
     <<"f", "o", "r">>,
     <<"a", "r", "e">>,
     <<"w", "i", "t", "h">>,
     <<"t", "h", "i", "s">>,
     <<"t", "h", "a", "t">>,
     <<"c", "o", "u", "r", "s", "e">>,
     <<"p", "r", "o", "g", "r", "a", "m", "m", "e">>,
     <<"p", "r", "o", "g", "r", "a", "m">>}

\* mutant: the stop words removed before the words are lowercased
generate_keywords_StopBeforeLower(course) ==
    LET name == Get(course, "name", PyStr(<<>>)).s
        description == Get(course, "description", PyStr(<<>>)).s
        tags == Get(course, "tags", PyStr(<<>>)).s
        fromName == {x \in Range(WordsOf(name)) : Len(x) > 2}
        fromDescription == {x \in Range(WordsOf(description)) : Len(x) > 3}
        fromTags == IF tags = <<>> THEN {} ELSE Range(SplitComma(tags, <<>>))
        keywords == {Lower(w) : w \in (fromName \cup fromDescription \cup fromTags) \ stop_words}
    IN  Join(Sorted(keywords), <<",", " ">>)

generate_keywords(course) ==
    LET name == Get(course, "name", PyStr(<<>>)).s
        description == Get(course, "description", PyStr(<<>>)).s
        tags == Get(course, "tags", PyStr(<<>>)).s
        fromName == {Lower(w) : w \in {x \in Range(WordsOf(name)) : Len(x) > 2}}
        fromDescription ==
            {Lower(w) : w \in {x \in Range(WordsOf(description)) : Len(x) > 3}}
        fromTags == IF tags = <<>> THEN {}
                    ELSE {Lower(w) : w \in Range(SplitComma(tags, <<>>))}
        keywords == (fromName \cup fromDescription \cup fromTags) \ stop_words
    IN  Join(Sorted(keywords), <<",", " ">>)

\* if not enhanced.get('cao_code'):
\*     enhanced['cao_code'] = self.extract_cao_code_from_name(enhanced.get('name', ''))
backfill_cao_code_in(heap, enhanced) ==
    IF ~Truthy(Get(heap[enhanced], "cao_code", PyNone))
    THEN setitem(heap, enhanced, "cao_code",
             PyStr(extract_cao_code_from_name(Get(heap[enhanced], "name", PyStr(<<>>)).s)))
    ELSE heap

\* mutant: tags the course already has are kept
improve_tags_in_KeepsTags(heap, enhanced) ==
    IF Truthy(Get(heap[enhanced], "tags", PyNone)) THEN heap
    ELSE setitem(heap, enhanced, "tags", PyStr(improve_tags(heap[enhanced])))

\* enhanced['tags'] = self.improve_tags(enhanced)
improve_tags_in(heap, enhanced) ==
    setitem(heap, enhanced, "tags", PyStr(improve_tags(heap[enhanced])))

\* enhanced['duration'] = self.standardize_duration(enhanced.get('duration', ''))
standardize_duration_in(heap, enhanced) ==
    setitem(heap, enhanced, "duration",
        PyStr(standardize_duration(Get(heap[enhanced], "duration", PyStr(<<>>)).s)))

\* enhanced['keywords'] = self.generate_keywords(enhanced)
generate_keywords_in(heap, enhanced) ==
    setitem(heap, enhanced, "keywords", PyStr(generate_keywords(heap[enhanced])))

\* the body of enhance_course_data, once enhanced is made
enhance_fields_in(heap, enhanced) ==
    [heap |-> generate_keywords_in(
                  standardize_duration_in(
                      improve_tags_in(backfill_cao_code_in(heap, enhanced), enhanced),
                      enhanced),
                  enhanced),
     ref |-> enhanced]

\* called with the result of d.copy()
after_copy_enhance(c) == enhance_fields_in(c.heap, c.ref)

\* enhance_course_data on the dict course of heap: the heap it leaves and the
\* dict it returns
enhance_course_data_in(heap, course) == after_copy_enhance(dict_copy(heap, course))

\* the dict returned, as a value
dict_of(r) == r.heap[r.ref]

\* the enhanced copy of a dict with the keys and values of course
enhance_course_data(course) == dict_of(enhance_course_data_in(<<course>>, 1))

\* the list comprehension of step 4 from position i: the heap it leaves and
\* the dicts it collected
RECURSIVE EnhanceFrom(_, _, _, _)

\* the comprehension after enhance_course_data gave r for cs[i]
EnhanceNext(r, cs, i, collected) ==
    EnhanceFrom(r.heap, cs, i + 1, Append(collected, r.ref))

EnhanceFrom(heap, cs, i, collected) ==
    IF i > Len(cs) THEN [heap |-> heap, refs |-> collected]
    ELSE EnhanceNext(enhance_course_data_in(heap, cs[i]), cs, i, collected)

(***************************************************************************)
(* The constructor.                                                        *)
(***************************************************************************)
NewStats ==
    [total_records |-> 0, valid_records |-> 0, duplicates_removed |-> 0,
     validation_errors |-> <<>>]

InitPipeline ==
    /\ courses = <<>>
    /\ cleaned_courses = <<>>
    /\ valid_courses = <<>>
    /\ unique_courses = <<>>
    /\ enhanced_courses = <<>>
    /\ validation_stats = NewStats
    /\ pc = "new"
    /\ exc = "none"
    /\ valid_pos = <<>>
    /\ unique_pos = <<>>
    /\ seen_keys = {}
    /\ cleaned_ids = <<>>
    /\ outputs = <<>>
    /\ calls = 0

(***************************************************************************)
(* clean_text_field called on its own, and again on its own result.        *)
(***************************************************************************)
TextAlphabet == {"a", ".", " ", "U+00A0", "'", "U+201C", "U+2013", "|"}

RECURSIVE StringsUpTo(_, _)
StringsUpTo(alphabet, n) ==
    IF n = 0 THEN {<<>>}
    ELSE LET shorter == StringsUpTo(alphabet, n - 1)
         IN  shorter \cup {Append(s, c) : s \in shorter, c \in alphabet}

\* the texts of at most n characters, and one value of each other type
TextInputs(n) ==
    {PyStr(s) : s \in StringsUpTo(TextAlphabet, n)}
    \cup {PyNone, PyInt(0), PyInt(-12), PyFloat(3), PyBool(TRUE), PyBool(FALSE)}

InitText ==
    /\ InitPipeline
    /\ arg \in TextInputs(MaxTextLen)
    /\ ret = <<>>

\* one call of a field cleaner, as recorded in ret
CallOf(fn, out) == [fn |-> fn, out |-> out]

ApplyCleanText ==
    /\ Len(ret) < 2
    /\ ret' = Append(ret, CallOf("clean_text_field",
                   clean_text_field(IF ret = <<>> THEN arg
                                    ELSE PyStr(ret[Len(ret)].out))))
    /\ UNCHANGED <<arg, pipeline_vars>>

SpecText == InitText /\ [][ApplyCleanText]_vars

(***************************************************************************)
(* The numeric cleaners called on their own.                               *)
(***************************************************************************)
NumAlphabet == {"6", "2", "5", "8", " ", "-", "_", "x"}

\* the ints and the floats (in halves) up to max, the strs of at most len
\* characters, and the special values
NumInputs(max, len) ==
    {PyInt(n) : n \in (-3)..max}
    \cup {PyFloat(h) : h \in (-3)..(2 * max)}
    \cup {PyStr(s) : s \in StringsUpTo(NumAlphabet, len)}
    \cup {PyNone, PyInf, PyNan, PyBool(TRUE), PyBool(FALSE)}

InitNum ==
    /\ InitPipeline
    /\ arg \in NumInputs(MaxNum, MaxNumLen)
    /\ ret = <<>>

ApplyCleanNfq ==
    /\ ret = <<>>
    /\ ret' = <<CallOf("clean_nfq_level", clean_nfq_level(arg))>>
    /\ UNCHANGED <<arg, pipeline_vars>>

ApplyCleanPoints ==
    /\ ret = <<>>
    /\ ret' = <<CallOf("clean_points", clean_points(arg))>>
    /\ UNCHANGED <<arg, pipeline_vars>>

ApplyCleanCollegeId ==
    /\ ret = <<>>
    /\ ret' = <<CallOf("clean_college_id", clean_college_id(arg))>>
    /\ UNCHANGED <<arg, pipeline_vars>>

NextNum == ApplyCleanNfq \/ ApplyCleanPoints \/ ApplyCleanCollegeId

SpecNum == InitNum /\ [][NextNum]_vars

(***************************************************************************)
(* standardize_cao_code called on its own.                                 *)
(***************************************************************************)
CaoAlphabet == {"a", "B", "1", "-"}

\* the strs of at most n characters, the spec's example and one value of
\* each other type
CaoInputs(n) ==
    {PyStr(s) : s \in StringsUpTo(CaoAlphabet, n)}
    \cup {PyStr(<<"c", "o", "d", "e", ":", " ", "a", "b", "1", "2", "3", " ">>),
          PyStr(<<" ", "a", "B", "1", "1", "1", " ">>),
          PyNone, PyInt(0), PyInt(123), PyBool(TRUE)}

InitCao ==
    /\ InitPipeline
    /\ arg \in CaoInputs(MaxCaoLen)
    /\ ret = <<>>

ApplyStandardizeCao ==
    /\ ret = <<>>
    /\ ret' = <<CallOf("standardize_cao_code", standardize_cao_code(arg))>>
    /\ UNCHANGED <<arg, pipeline_vars>>

SpecCao == InitCao /\ [][ApplyStandardizeCao]_vars

(***************************************************************************)
(* standardize_duration called on its own.                                 *)
(***************************************************************************)
DurationTokens ==
    {<<"2">>,
     <<"1", "0">>,
     <<"0">>,
     <<"1">>,
     <<"y", "e", "a", "r">>,
     <<"Y", "e", "a", "r", "s">>,
     <<"M", "O", "N", "T", "H">>,
     <<"w", "e", "e", "k">>,
     <<"s">>,
     <<" ">>,
     <<"-">>,
     <<"p", "a", "r", "t">>}

RECURSIVE TokensUpTo(_)
TokensUpTo(n) ==
    IF n = 0 THEN {<<>>}
    ELSE LET shorter == TokensUpTo(n - 1)
         IN  shorter \cup {s \o t : s \in shorter, t \in DurationTokens}

InitDuration ==
    /\ InitPipeline
    /\ arg \in {PyStr(s) : s \in TokensUpTo(MaxDurationTokens)}
    /\ ret = <<>>

\* self.standardize_duration(duration)
StandardizeDuration ==
    /\ ret = <<>>
    /\ ret' = <<CallOf("standardize_duration", standardize_duration(arg.s))>>
    /\ UNCHANGED <<arg, pipeline_vars>>

NextDuration == StandardizeDuration

SpecDuration == InitDuration /\ [][NextDuration]_vars

(***************************************************************************)
(* clean_course_data, one action per step of its body.                     *)
(***************************************************************************)
S(w) == PyStr(w)

\* the raw records a scraper may hand over
RawCourses ==
    {[name |-> S(<<"A", "b", "c">>), cao_code |-> S(<<>>), nfq_level |-> S(<<"8">>),
      points |-> S(<<"4", "5", "0">>)],
     [name |-> S(<<"a", "b", "c">>), nfq_level |-> PyInt(8), points |-> PyInt(450),
      duration |-> S(<<"2", " ", "y", "e", "a", "r", "s">>)],
     [name |-> S(<<"A", "b", "c">>), cao_code |-> S(<<"a", "b", "1", "2", "3">>), nfq_level |-> PyInt(8)],
     [name |-> S(<<"A", "B", "C">>), cao_code |-> S(<<"A", "B", "-", "1", "2", "3">>), nfq_level |-> PyInt(9),
      points |-> PyInt(626)],
     [name |-> S(<<"A", "b", "c">>), cao_code |-> S(<<" ", "c", "d", "4", "5", "6">>), nfq_level |-> PyFloat(15),
      points |-> PyInt(-1)],
     [name |-> S(<<"A", "b", "d">>), nfq_level |-> PyNone, points |-> PyNone,
      description |-> S(<<"d", "a", "t", "a">>), tags |-> S(<<"A", "b", "c">>)],
     [name |-> S(<<"H", "i">>), nfq_level |-> PyInt(8)],
     [nfq_level |-> PyInt(8), points |-> PyInt(7)],
     [name |-> S(<<"A", "b", "c">>), points |-> PyInt(10)],
     [name |-> S(<<"A", "b", "d">>), cao_code |-> PyNone, nfq_level |-> S(<<"x">>),
      points |-> S(<<"x">>)],
     [name |-> S(<<"A", "b", "d">>), cao_code |-> S(<<"x", "1">>), nfq_level |-> PyInt(4),
      points |-> PyFloat(1251), college_id |-> PyInt(0)],
     [name |-> S(<<"A", "b", "c">>), nfq_level |-> PyInf],
     [name |-> S(<<"a", " ", "'", " ", "b">>), nfq_level |-> PyInt(10), points |-> PyInt(625)],
     [name |-> S(<<"H", "e", "l", "p">>), nfq_level |-> PyInt(8), points |-> PyInt(300)],
     [name |-> S(<<"a", "b", "1", "2", "3", " ", "x">>), cao_code |-> S(<<>>), nfq_level |-> PyInt(8),
      description |-> S(<<"d", "a", "t", "a">>)],
     [name |-> S(<<"A", "B", "1", "2", "3", " ", "x">>), cao_code |-> S(<<"a", "b", "1", "2", "3">>), nfq_level |-> PyInt(8),
      points |-> PyInt(0)],
     [name |-> S(<<"A", "b", "c", "|", "1", "2", "3">>), nfq_level |-> PyInt(8)],
     [name |-> S(<<"A", "b", "c">>), cao_code |-> S(<<"1", "2", "3">>), nfq_level |-> PyInt(8)],
     [name |-> S(<<"A", "b", "d">>), cao_code |-> S(<<"1", "A", "B", "-", "1", "2", "3">>),
      nfq_level |-> PyInt(8)]}

RECURSIVE BatchesUpTo(_)
BatchesUpTo(n) ==
    IF n = 0 THEN {<<>>}
    ELSE LET shorter == BatchesUpTo(n - 1)
         IN  shorter \cup {Append(b, c) : b \in shorter, c \in RawCourses}

\* the entry: validation_stats["total_records"] = len(courses)
Call ==
    /\ pc = "new"
    /\ \E batch \in BatchesUpTo(MaxBatch) :
         /\ courses' = batch
         /\ validation_stats' = [validation_stats EXCEPT !.total_records = Len(batch)]
    /\ pc' = "clean"
    /\ calls' = calls + 1
    /\ UNCHANGED <<cleaned_courses, valid_courses, unique_courses, enhanced_courses,
                   exc, valid_pos, unique_pos, seen_keys, cleaned_ids, outputs, arg, ret>>

\* Step 1: cleaned_courses = [self.clean_single_course(course) for course in courses]
\* the assignments of step 1, r being what the list comprehension left: the
\* dicts of the argument are read back from the heap
CleanResult(r) ==
    /\ IF r.exc = "none"
       THEN /\ cleaned_courses' = [i \in DOMAIN courses |-> r.heap[r.refs[i]]]
            /\ cleaned_ids' = r.refs
            /\ pc' = "validate"
            /\ exc' = exc
       ELSE /\ exc' = r.exc
            /\ pc' = "raised"
            /\ UNCHANGED <<cleaned_courses, cleaned_ids>>
    /\ courses' = SubSeq(r.heap, 1, Len(courses))

\* the heap starts with the dicts of the argument, in the order of the list
CleanStep ==
    /\ pc = "clean"
    /\ CleanResult(CleanFrom(courses, [i \in DOMAIN courses |-> i], 1, <<>>))
    /\ UNCHANGED <<valid_courses, unique_courses, enhanced_courses,
                   validation_stats, valid_pos, unique_pos, seen_keys, outputs,
                   arg, ret, calls>>

\* Step 2: valid_courses = [course for course in cleaned_courses
\*                          if self.validate_course(course)]
ValidateStep ==
    /\ pc = "validate"
    /\ LET r == ValidateFrom(cleaned_courses, 1, <<>>, validation_stats.validation_errors)
       IN  /\ valid_courses' = [i \in DOMAIN r.kept |-> cleaned_courses[r.kept[i]]]
           /\ valid_pos' = r.kept
           /\ validation_stats' = [validation_stats EXCEPT !.validation_errors = r.errors]
    /\ pc' = "dedup"
    /\ UNCHANGED <<courses, cleaned_courses, unique_courses, enhanced_courses, exc,
                   unique_pos, seen_keys, cleaned_ids, outputs, arg, ret, calls>>

\* mutant: seen_keys is not created anew, the keys of the earlier calls stay
DedupStep_SeenKept ==
    /\ pc = "dedup"
    /\ LET r == DedupFrom(valid_courses, 1, seen_keys, <<>>, 0)
       IN  /\ unique_courses' = [i \in DOMAIN r.kept |-> valid_courses[r.kept[i]]]
           /\ unique_pos' = [i \in DOMAIN r.kept |-> valid_pos[r.kept[i]]]
           /\ seen_keys' = r.seen_keys
           /\ validation_stats' =
                [validation_stats EXCEPT !.duplicates_removed = r.duplicates_count]
    /\ pc' = "enhance"
    /\ UNCHANGED <<courses, cleaned_courses, valid_courses, enhanced_courses, exc,
                   valid_pos, cleaned_ids, outputs, arg, ret, calls>>

\* Step 3: unique_courses = self.remove_duplicates(valid_courses)
DedupStep ==
    /\ pc = "dedup"
    /\ LET r == remove_duplicates(valid_courses)
       IN  /\ unique_courses' = [i \in DOMAIN r.kept |-> valid_courses[r.kept[i]]]
           /\ unique_pos' = [i \in DOMAIN r.kept |-> valid_pos[r.kept[i]]]
           /\ seen_keys' = r.seen_keys
           /\ validation_stats' =
                [validation_stats EXCEPT !.duplicates_removed = r.duplicates_count]
    /\ pc' = "enhance"
    /\ UNCHANGED <<courses, cleaned_courses, valid_courses, enhanced_courses, exc,
                   valid_pos, cleaned_ids, outputs, arg, ret, calls>>

\* Step 4: enhanced_courses = [self.enhance_course_data(course) for course in
\* unique_courses]; validation_stats["valid_records"] = len(enhanced_courses)
\* the assignments of step 4, r being what the list comprehension left
EnhanceResult(r) ==
    /\ enhanced_courses' = [k \in DOMAIN unique_courses |-> r.heap[r.refs[k]]]
    /\ courses' = SubSeq(r.heap, 1, Len(courses))

\* the dicts alive at step 4: those of the argument, then those step 1 made
HeapAtEnhance(last) ==
    [d \in 1..last |->
        IF d <= Len(courses) THEN courses[d]
        ELSE cleaned_courses[CHOOSE i \in DOMAIN cleaned_ids : cleaned_ids[i] = d]]

\* the greatest of a set of numbers
Max(ids) == CHOOSE x \in ids : \A y \in ids : y <= x

EnhanceStep ==
    /\ pc = "enhance"
    /\ EnhanceResult(
           EnhanceFrom(HeapAtEnhance(Max((0..Len(courses)) \cup Range(cleaned_ids))),
                       [k \in DOMAIN unique_courses |-> cleaned_ids[unique_pos[k]]],
                       1, <<>>))
    /\ validation_stats' =
         [validation_stats EXCEPT !.valid_records = Len(unique_courses)]
    /\ pc' = "log"
    /\ UNCHANGED <<cleaned_courses, valid_courses, unique_courses, exc,
                   valid_pos, unique_pos, seen_keys, cleaned_ids, outputs, arg, ret, calls>>

\* log_validation_stats: the only thing it computes is the success rate,
\* valid_records / total_records * 100
log_validation_stats(stats) ==
    IF stats.total_records = 0 THEN Raised("ZeroDivisionError") ELSE Returned(0)

\* self.log_validation_stats(); return enhanced_courses
LogAndReturn ==
    /\ pc = "log"
    /\ LET r == log_validation_stats(validation_stats)
       IN  /\ exc' = r.exc
           /\ pc' = IF r.exc = "none" THEN "returned" ELSE "raised"
           /\ outputs' = IF r.exc = "none"
                         THEN Append(outputs, [batch |-> courses,
                                               out |-> enhanced_courses])
                         ELSE outputs
    /\ UNCHANGED <<courses, cleaned_courses, valid_courses, unique_courses,
                   enhanced_courses, validation_stats, valid_pos, unique_pos,
                   seen_keys, cleaned_ids, arg, ret, calls>>

Init ==
    /\ InitPipeline
    /\ arg = PyNone
    /\ ret = <<>>

Next ==
    \/ Call
    \/ CleanStep
    \/ ValidateStep
    \/ DedupStep
    \/ EnhanceStep
    \/ LogAndReturn

Spec == Init /\ [][Next]_vars

(***************************************************************************)
(* clean_course_data as one function: the outcome of a call on a batch by  *)
(* an instance whose validation_stats are stats, the steps of the actions  *)
(* above run one after the other.                                          *)
(***************************************************************************)
clean_course_data(batch, stats) ==
    LET s0 == [stats EXCEPT !.total_records = Len(batch)]
        results == [i \in DOMAIN batch |-> clean_single_course(batch[i])]
        failed == {i \in DOMAIN batch : results[i].exc # "none"}
        cleaned == [i \in DOMAIN batch |-> results[i].v]
        v == ValidateFrom(cleaned, 1, <<>>, s0.validation_errors)
        valid == [i \in DOMAIN v.kept |-> cleaned[v.kept[i]]]
        d == remove_duplicates(valid)
        unique == [i \in DOMAIN d.kept |-> valid[d.kept[i]]]
        enhanced == [i \in DOMAIN unique |-> enhance_course_data(unique[i])]
        s1 == [s0 EXCEPT !.validation_errors = v.errors,
                         !.duplicates_removed = d.duplicates_count,
                         !.valid_records = Len(enhanced)]
        logged == log_validation_stats(s1)
    IN  IF failed # {}
        THEN [exc |-> results[CHOOSE i \in failed : \A j \in failed : i <= j].exc,
              out |-> <<>>, stats |-> s0]
        ELSE IF logged.exc # "none" THEN [exc |-> logged.exc, out |-> <<>>, stats |-> s1]
        ELSE [exc |-> "none", out |-> enhanced, stats |-> s1]

(***************************************************************************)
(* clean_course_data called on the batches of at most one record, the      *)
(* record drawn from a wider range of names, descriptions and codes.       *)
(***************************************************************************)
\* a key the record does not have
Absent == [t |-> "absent", s |-> <<>>, n |-> 0]

\* the dict holding the fields that are not Absent
Record(fields) == [k \in {x \in DOMAIN fields : fields[x] # Absent} |-> fields[k]]

\* a name of n characters, one word
LongName(n) == [i \in 1..n |-> "x"]

OneNames ==
    {S(<<"A", "b", "c">>),
     S(<<"H", "i">>),
     S(<<>>),
     S(<<"C", "o", "n", "t", "a", "c", "t", " ", "U", "s">>),
     S(<<"D", "a", "t", "a", " ", "A", "r", "t">>),
     S(<<" ", "N", "u", "r", "s", "i", "n", "g", " ", "a", "n", "d", " ", " ", "B", "u", "s", "i", "n", "e", "s", "s", " ">>),
     S(<<"a", "b", "1", "2", "3", " ", "F", "i", "l", "m">>),
     S(<<"A", "B", "C", "D", "E", "1", "2", "3">>),
     S(<<"T", "h", "e", " ", "E", "a", "r", "l", "y">>),
     S(<<"D", "a", "t", "a", " ", "s", "t", "e", "m", " ", "b", "u", "s", "i", "n", "e", "s", "s">>),
     S(<<"C", "o", "u", "r", "s", "e", " ", "f", "o", "r", " ", "a", "r", "t">>),
     S(<<"A", "B", "1", "2", "3", "4", "5", " ", "x">>),
     S(LongName(VALIDATION_RULES.max_course_name_length)),
     S(LongName(VALIDATION_RULES.max_course_name_length + 1)),
     Absent}

OneDescriptions ==
    {S(<<>>),
     S(<<"l", "e", "a", "r", "n", "i", "n", "g">>),
     S(<<"w", "i", "t", "h", " ", "t", "h", "i", "s", " ", "f", "i", "n", "a", "n", "c", "e", " ", "c", "o", "u", "r", "s", "e">>),
     S(<<"d", "a", "t", "a">>),
     Absent}

OneCaoCodes ==
    {S(<<>>),
     S(<<"c", "d", "4", "5", "6">>),
     S(<<"x", "1">>),
     Absent}

OneNfqLevels == {PyInt(8), PyInt(4), Absent}

OneRaw ==
    {Record([name |-> n, description |-> d, cao_code |-> c, nfq_level |-> q]) :
        n \in OneNames, d \in OneDescriptions, c \in OneCaoCodes, q \in OneNfqLevels}

\* the entry, as in Call
CallOne ==
    /\ pc = "new"
    /\ \E batch \in {<<>>} \cup {<<r>> : r \in OneRaw} :
         /\ courses' = batch
         /\ validation_stats' = [validation_stats EXCEPT !.total_records = Len(batch)]
    /\ pc' = "clean"
    /\ calls' = calls + 1
    /\ UNCHANGED <<cleaned_courses, valid_courses, unique_courses, enhanced_courses,
                   exc, valid_pos, unique_pos, seen_keys, cleaned_ids, outputs, arg, ret>>

NextOne ==
    \/ CallOne
    \/ CleanStep
    \/ ValidateStep
    \/ DedupStep
    \/ EnhanceStep
    \/ LogAndReturn

SpecOne == Init /\ [][NextOne]_vars

(***************************************************************************)
(* clean_course_data called several times on the same instance: the locals *)
(* of a call start afresh, self.validation_stats is the instance's.        *)
(***************************************************************************)
AgainCourses ==
    {[name |-> S(<<"H", "i">>), nfq_level |-> PyInt(8)],
     [name |-> S(<<"A", "b", "c">>), nfq_level |-> PyInt(8)],
     [name |-> S(<<"a", "b", "c">>), cao_code |-> S(<<>>), nfq_level |-> S(<<"9">>)],
     [name |-> S(<<"A", "b", "d">>)],
     [name |-> S(<<"A", "b", "c">>), nfq_level |-> PyInf]}

RECURSIVE BatchesOf(_, _)
BatchesOf(records, n) ==
    IF n = 0 THEN {<<>>}
    ELSE LET shorter == BatchesOf(records, n - 1)
         IN  shorter \cup {Append(b, c) : b \in shorter, c \in records}

\* the entry of a first or of a later call
CallAgain ==
    /\ pc \in {"new", "returned", "raised"}
    /\ calls < MaxCalls
    /\ \E batch \in BatchesOf(AgainCourses, MaxAgainBatch) :
         /\ courses' = batch
         /\ validation_stats' = [validation_stats EXCEPT !.total_records = Len(batch)]
    /\ pc' = "clean"
    /\ exc' = "none"
    /\ calls' = calls + 1
    /\ cleaned_courses' = <<>>
    /\ valid_courses' = <<>>
    /\ unique_courses' = <<>>
    /\ enhanced_courses' = <<>>
    /\ valid_pos' = <<>>
    /\ unique_pos' = <<>>
    /\ cleaned_ids' = <<>>
    /\ UNCHANGED <<seen_keys, outputs, arg, ret>>

NextAgain ==
    \/ CallAgain
    \/ CleanStep
    \/ ValidateStep
    \/ DedupStep
    \/ EnhanceStep
    \/ LogAndReturn

SpecAgain == Init /\ [][NextAgain]_vars

(***************************************************************************)
(* Properties.                                                             *)
(***************************************************************************)
Returned_ == pc = "returned"
Cleaned_ == pc \in {"validate", "dedup", "enhance", "log", "returned"}
Validated_ == pc \in {"dedup", "enhance", "log", "returned"}

NameOf(course) == Get(course, "name", PyStr(<<>>)).s
CaoOf(course) == Get(course, "cao_code", PyStr(<<>>)).s

\* C1: dedup first-wins.  When clean_course_data returns, for every record
\* that passed validation, exactly one record is emitted among the validated
\* records that share its dedup key, and it is the earliest of them in the
\* input.
C1_DedupFirstWins ==
    Returned_ =>
        \A i \in Range(valid_pos) :
            LET same == {j \in Range(valid_pos) :
                           DedupKey(cleaned_courses[j]) = DedupKey(cleaned_courses[i])}
                first == CHOOSE x \in same : \A y \in same : x <= y
                emitted == {k \in DOMAIN enhanced_courses : unique_pos[k] \in same}
            IN  /\ Cardinality(emitted) = 1
                /\ \A k \in emitted :
                     /\ unique_pos[k] = first
                     /\ NameOf(enhanced_courses[k]) = NameOf(cleaned_courses[first])

\* C1 witness: a call returned after two validated records shared a dedup
\* key and the later one was dropped.
C1_Witness ==
    /\ Returned_
    /\ validation_stats.duplicates_removed >= 1
    /\ \E i, j \in Range(valid_pos) :
         /\ i < j
         /\ DedupKey(cleaned_courses[i]) = DedupKey(cleaned_courses[j])
         /\ i \in Range(unique_pos)
         /\ j \notin Range(unique_pos)

\* C2: clean_course_data on an empty batch completes without raising and
\* returns an empty output with total_records = 0.
C2_EmptyBatchCompletes ==
    (courses = <<>> /\ pc # "new") =>
        /\ pc # "raised"
        /\ Returned_ => (enhanced_courses = <<>> /\ validation_stats.total_records = 0)

\* C3: dedup key policy.  A validated record is dropped as a duplicate exactly
\* when an earlier validated record has the same lowercased name and the same
\* cao_code (both empty, or the same non-empty code); records whose cao_codes
\* differ are never duplicates of each other.
C3_DedupKeyPolicy ==
    Returned_ =>
        \A j \in Range(valid_pos) :
            (j \notin Range(unique_pos)) <=>
                \E i \in Range(valid_pos) :
                    /\ i < j
                    /\ Lower(NameOf(cleaned_courses[i])) = Lower(NameOf(cleaned_courses[j]))
                    /\ CaoOf(cleaned_courses[i]) = CaoOf(cleaned_courses[j])

\* C3 witness: two records whose names differ only in letter case, one with an
\* empty and one with a non-empty cao_code, were both emitted.
C3_Witness ==
    /\ Returned_
    /\ \E i, j \in Range(unique_pos) :
         /\ NameOf(cleaned_courses[i]) # NameOf(cleaned_courses[j])
         /\ Lower(NameOf(cleaned_courses[i])) = Lower(NameOf(cleaned_courses[j]))
         /\ CaoOf(cleaned_courses[i]) = <<>>
         /\ CaoOf(cleaned_courses[j]) # <<>>

\* C4: stable order.  The output of clean_course_data is a subsequence of the
\* input batch: the emitted records come from strictly increasing positions
\* of the input, each being the cleaned and enhanced record of its position.
C4_StableOrder ==
    Returned_ =>
        /\ Len(unique_pos) = Len(enhanced_courses)
        /\ \A k \in DOMAIN enhanced_courses :
             /\ unique_pos[k] \in DOMAIN courses
             /\ enhanced_courses[k] =
                  enhance_course_data(clean_single_course(courses[unique_pos[k]]).v)
        /\ \A k, l \in DOMAIN enhanced_courses : k < l => unique_pos[k] < unique_pos[l]

\* C4 witness: a call returned two records, the second input record having
\* been emitted after the first.
C4_Witness ==
    /\ Returned_
    /\ Len(enhanced_courses) = 2
    /\ NameOf(enhanced_courses[1]) # NameOf(enhanced_courses[2])

\* C5: idempotence of text cleaning: clean_text_field applied to its own
\* result gives that result again.
C5_Idempotent == Len(ret) = 2 => ret[2].out = ret[1].out

\* C6: whitespace normalization: the result of clean_text_field has no run of
\* two or more whitespace characters and no leading or trailing whitespace.
C6_WhitespaceNormalized ==
    \A k \in DOMAIN ret :
        LET out == ret[k].out
        IN  /\ out # <<>> => ~IsSpace(out[1]) /\ ~IsSpace(out[Len(out)])
            /\ \A i \in 1..(Len(out) - 1) : ~(IsSpace(out[i]) /\ IsSpace(out[i + 1]))

\* C7: allowlist: every character of the result of clean_text_field is a word
\* character, whitespace, hyphen, period, comma, parenthesis, ampersand or
\* slash; no straight or curly quote and no '|' survives.
C7_Allowlist ==
    \A k \in DOMAIN ret :
        \A i \in DOMAIN ret[k].out :
            LET c == ret[k].out[i]
            IN  /\ \/ c \in LowerLetters \cup UpperLetters \cup Digits \cup {"_"}
                   \/ c \in Whitespace
                   \/ c \in {"-", ".", ",", "(", ")", "&", "/"}
                /\ c \notin {"'", "\"", "U+2019", "U+201C", "U+201D", "|"}

\* C7 witness: clean_text_field returned a non-empty text for an input that
\* held a quote or a '|'.
C7_Witness ==
    /\ ret # <<>>
    /\ arg.t = "str"
    /\ \E i \in DOMAIN arg.s : arg.s[i] \in {"'", "U+201C", "|"}
    /\ ret[1].out # <<>>

\* C8: range invariant of the numeric cleaners: for every input,
\* clean_nfq_level returns a member of {5,...,10} and clean_points returns an
\* integer in [0, 625].
C8_RangeInvariant ==
    \A k \in DOMAIN ret :
        /\ ret[k].fn = "clean_nfq_level" =>
             (ret[k].out.exc = "none" /\ ret[k].out.v \in 5..10)
        /\ ret[k].fn = "clean_points" =>
             (ret[k].out.exc = "none" /\ ret[k].out.v \in 0..625)

HasValidNfq(course) ==
    /\ "nfq_level" \in DOMAIN course
    /\ course.nfq_level.t = "int"
    /\ course.nfq_level.n \in 5..10

NfqRuleRejects(course) ==
    \E e \in Range(validation_errors_of(course)) : e.msg = "Invalid NFQ level"

\* C9 as claimed: after clean_single_course, whatever the raw nfq_level was,
\* also when the key is absent, the cleaned nfq_level is a member of
\* {5,...,10}, and the validator's NFQ-level rule rejects no cleaned record.
C9_NfqAlwaysValid ==
    Cleaned_ =>
        \A i \in DOMAIN cleaned_courses :
            /\ HasValidNfq(cleaned_courses[i])
            /\ ~NfqRuleRejects(cleaned_courses[i])

\* C9 as amended: a raw record that has an nfq_level key is cleaned to a
\* record whose nfq_level is a member of {5,...,10}, and the validator's
\* NFQ-level rule does not reject it; a raw record without the key is cleaned
\* to a record without it, which the NFQ-level rule rejects (and the rejection
\* reasons recorded for the NFQ-level rule all report the missing value).
C9_NfqValidWhenPresent ==
    /\ Cleaned_ =>
         \A i \in DOMAIN cleaned_courses :
             IF "nfq_level" \in DOMAIN courses[i]
             THEN HasValidNfq(cleaned_courses[i]) /\ ~NfqRuleRejects(cleaned_courses[i])
             ELSE /\ "nfq_level" \notin DOMAIN cleaned_courses[i]
                  /\ NfqRuleRejects(cleaned_courses[i])
                  /\ Validated_ => i \notin Range(valid_pos)
    /\ Validated_ =>
         \A name \in DOMAIN validation_stats.validation_errors :
             \A e \in Range(validation_stats.validation_errors[name]) :
                 e.msg = "Invalid NFQ level" => e.val = PyNone

\* C9 witness: a call returned after cleaning one record whose raw nfq_level
\* was present but not a valid level, now 8 and emitted, and one record
\* without the key, rejected.
C9_Witness ==
    /\ Returned_
    /\ \E i, j \in DOMAIN courses :
         /\ "nfq_level" \in DOMAIN courses[i]
         /\ ~HasValidNfq(courses[i])
         /\ cleaned_courses[i].nfq_level = PyInt(8)
         /\ i \in Range(unique_pos)
         /\ "nfq_level" \notin DOMAIN courses[j]
         /\ j \notin Range(valid_pos)

HasPointsInRange(course) ==
    /\ "points" \in DOMAIN course
    /\ course.points.t = "int"
    /\ course.points.n \in 0..625

\* C10 as claimed: every record emitted by clean_course_data carries a points
\* value that is an integer in [0, 625], also when the raw record had no
\* points key.
C10_PointsAlwaysInRange ==
    Returned_ => \A k \in DOMAIN enhanced_courses : HasPointsInRange(enhanced_courses[k])

\* C10 as amended: every emitted record whose raw record had a points key
\* carries a points value that is an integer in [0, 625]; a record whose raw
\* record had no points key is emitted without one.
C10_PointsInRangeWhenPresent ==
    Returned_ =>
        \A k \in DOMAIN enhanced_courses :
            IF "points" \in DOMAIN courses[unique_pos[k]]
            THEN HasPointsInRange(enhanced_courses[k])
            ELSE "points" \notin DOMAIN enhanced_courses[k]

\* C10 witness: a record whose raw points was present but not an integer in
\* [0, 625] was emitted with points 0.
C10_Witness ==
    /\ Returned_
    /\ \E k \in DOMAIN enhanced_courses :
         /\ "points" \in DOMAIN courses[unique_pos[k]]
         /\ ~HasPointsInRange(courses[unique_pos[k]])
         /\ courses[unique_pos[k]].points # PyNone
         /\ enhanced_courses[k].points = PyInt(0)

\* C11: CAO code canonical form.  For every str whose uppercase form (after
\* the surrounding whitespace is stripped) contains 2 to 4 letters A-Z
\* immediately followed by 3 or 4 digits, standardize_cao_code returns exactly
\* the leftmost such occurrence: the letters and the digits (as many as 4
\* when a fourth digit follows) of the uppercase text, joined, nothing else.
C11_IsCaoAt(c, i, l, d) ==
    /\ l \in 2..4 /\ d \in 3..4 /\ i >= 1 /\ i + l + d - 1 <= Len(c)
    /\ \A j \in i..(i + l - 1) : c[j] \in UpperLetters
    /\ \A j \in (i + l)..(i + l + d - 1) : c[j] \in Digits

C11_ContainsCao(c) ==
    \E i \in 1..Len(c), l \in 2..4, d \in 3..4 : C11_IsCaoAt(c, i, l, d)

C11_LeftmostMatch ==
    (ret # <<>> /\ arg.t = "str" /\ C11_ContainsCao(Upper(Strip(arg.s)))) =>
        LET c == Upper(Strip(arg.s))
            out == ret[1].out
        IN  \E i \in 1..Len(c), l \in 2..4, d \in 3..4 :
                /\ C11_IsCaoAt(c, i, l, d)
                /\ \A i2 \in 1..(i - 1), l2 \in 2..4, d2 \in 3..4 :
                       ~C11_IsCaoAt(c, i2, l2, d2)
                /\ (d = 3 => ~C11_IsCaoAt(c, i, l, 4))
                /\ out = SubSeq(c, i, i + l + d - 1)

\* the spec's example: 'code: ab123 ' gives 'AB123'
C11_Witness ==
    /\ ret # <<>>
    /\ arg = PyStr(<<"c", "o", "d", "e", ":", " ", "a", "b", "1", "2", "3", " ">>)
    /\ ret[1].out = <<"A", "B", "1", "2", "3">>

\* C12: denylist rejection.  A record whose cleaned name contains, in any
\* mix of cases, one of 'about us', 'contact us', 'help', 'privacy',
\* 'cookie', 'accessibility', 'terms' does not pass validation and is never
\* in the output, whatever its other fields are.
C12_Denylist ==
    {<<"a", "b", "o", "u", "t", " ", "u", "s">>,
     <<"c", "o", "n", "t", "a", "c", "t", " ", "u", "s">>,
     <<"h", "e", "l", "p">>,
     <<"p", "r", "i", "v", "a", "c", "y">>,
     <<"c", "o", "o", "k", "i", "e">>,
     <<"a", "c", "c", "e", "s", "s", "i", "b", "i", "l", "i", "t", "y">>,
     <<"t", "e", "r", "m", "s">>}

C12_HasDeniedWord(name) == \E w \in C12_Denylist : Contains(Lower(name), w)

C12_DenylistRejected ==
    /\ Validated_ =>
         \A i \in DOMAIN cleaned_courses :
             C12_HasDeniedWord(NameOf(cleaned_courses[i])) => i \notin Range(valid_pos)
    /\ Returned_ =>
         \A k \in DOMAIN enhanced_courses : ~C12_HasDeniedWord(NameOf(enhanced_courses[k]))

\* the spec's example: 'Contact Us' with a valid nfq_level is not emitted
C12_Witness ==
    /\ Returned_
    /\ Len(cleaned_courses) = 1
    /\ NameOf(cleaned_courses[1]) = <<"C", "o", "n", "t", "a", "c", "t", " ", "U", "s">>
    /\ HasValidNfq(cleaned_courses[1])
    /\ enhanced_courses = <<>>

\* C13: name length bounds.  Every emitted record has a cleaned name of 3 to
\* 200 characters; a cleaned record whose name has exactly 3 or exactly 200
\* characters passes validation when no other rule rejects it, and one whose
\* name has 2 or 201 characters never passes.
C13_OtherRulesPass(course) ==
    HasValidNfq(course) /\ ~C12_HasDeniedWord(NameOf(course))

C13_NameLengthBounds ==
    /\ Returned_ =>
         \A k \in DOMAIN enhanced_courses :
             Len(NameOf(enhanced_courses[k])) \in 3..200
    /\ Validated_ =>
         \A i \in DOMAIN cleaned_courses :
             LET n == Len(NameOf(cleaned_courses[i]))
             IN  /\ (n \in {3, 200} /\ C13_OtherRulesPass(cleaned_courses[i]))
                       => i \in Range(valid_pos)
                 /\ n \in {2, 201} => i \notin Range(valid_pos)

\* a name of exactly 200 characters is emitted
C13_Witness ==
    /\ Returned_
    /\ Len(enhanced_courses) = 1
    /\ Len(NameOf(enhanced_courses[1])) = 200

\* C14: validation rules are independent.  A cleaned record passes validation
\* exactly when no rule fails, and the reasons recorded for a rejected record
\* hold one entry for each required field that is missing, and one for each
\* of the other rules that fails (name too long, name too short, denylisted
\* name, NFQ level outside 5..10), and nothing else.
C14_Missing(course, field) == field \notin DOMAIN course \/ ~Truthy(course[field])

C14_Count(errors, msg) == Cardinality({j \in DOMAIN errors : errors[j].msg = msg})

C14_B(p) == IF p THEN 1 ELSE 0

C14_OneReasonPerFailingRule ==
    Validated_ =>
        \A i \in DOMAIN cleaned_courses :
            LET c == cleaned_courses[i]
                n == Len(NameOf(c))
                missing == Cardinality({f \in {"name", "nfq_level"} : C14_Missing(c, f)})
                tooLong == C14_B(n > 200)
                tooShort == C14_B(n < 3)
                denied == C14_B(C12_HasDeniedWord(NameOf(c)))
                badNfq == C14_B(~HasValidNfq(c))
                failing == missing + tooLong + tooShort + denied + badNfq
                recorded == validation_stats.validation_errors
                key == course_name_of(c)
            IN  /\ i \in Range(valid_pos) <=> failing = 0
                /\ failing > 0 =>
                     /\ key \in DOMAIN recorded
                     /\ (\A j \in (i + 1)..Len(cleaned_courses) :
                            j \in Range(valid_pos) \/ course_name_of(cleaned_courses[j]) # key)
                          => /\ Len(recorded[key]) = failing
                             /\ C14_Count(recorded[key], "Missing required field") = missing
                             /\ C14_Count(recorded[key], "Course name too long") = tooLong
                             /\ C14_Count(recorded[key], "Course name too short") = tooShort
                             /\ C14_Count(recorded[key], "Not a course entry (system page)") = denied
                             /\ C14_Count(recorded[key], "Invalid NFQ level") = badNfq

\* the spec's example: 'Hi' with nfq_level 8 is rejected with one reason, and
\* that reason is 'too short'
C14_Witness ==
    /\ Returned_
    /\ Len(cleaned_courses) = 1
    /\ NameOf(cleaned_courses[1]) = <<"H", "i">>
    /\ HasValidNfq(cleaned_courses[1])
    /\ valid_pos = <<>>
    /\ validation_stats.validation_errors[<<"H", "i">>]
         = <<Err("Course name too short", PyInt(2))>>

\* C15: statistics accounting.  When clean_course_data returns,
\* total_records is the length of the input, valid_records the length of the
\* output, duplicates_removed the number of validated records that
\* deduplication dropped, and total_records = valid_records +
\* duplicates_removed + the number of records that validation rejected.
C15_Rejected == Cardinality({i \in DOMAIN cleaned_courses : ~validate_course(cleaned_courses[i])})

C15_StatisticsAccounting ==
    Returned_ =>
        /\ validation_stats.total_records = Len(courses)
        /\ validation_stats.valid_records = Len(enhanced_courses)
        /\ validation_stats.duplicates_removed
             = Cardinality(Range(valid_pos) \ Range(unique_pos))
        /\ validation_stats.total_records
             = validation_stats.valid_records + validation_stats.duplicates_removed
               + C15_Rejected

\* a call that emitted one record, dropped one duplicate and rejected none
C15_Witness ==
    /\ Returned_
    /\ validation_stats.total_records = 2
    /\ validation_stats.valid_records = 1
    /\ validation_stats.duplicates_removed = 1

\* C16: a rejected record has no effect on the others.  When
\* clean_course_data returns, its output is the output of clean_course_data
\* on the same batch with the records that failed validation taken out.
C16_WithoutRejected == [k \in DOMAIN valid_pos |-> courses[valid_pos[k]]]

C16_RejectedHaveNoEffect ==
    Returned_ =>
        LET again == clean_course_data(C16_WithoutRejected, NewStats)
        IN  /\ again.exc = "none"
            /\ again.out = enhanced_courses

\* the items of a comma-joined str: the texts between its ', ' separators
ItemsOf(s) ==
    LET parts == SplitComma(s, <<>>)
    IN  [i \in DOMAIN parts |->
           IF i > 1 /\ parts[i] # <<>> /\ parts[i][1] = " " THEN Tail(parts[i]) ELSE parts[i]]

DescriptionOf(course) == Get(course, "description", PyStr(<<>>)).s
TagsOf(course) == Get(course, "tags", PyStr(<<>>)).s
KeywordsOf(course) == Get(course, "keywords", PyStr(<<>>)).s

\* C17: tag assignment.  The tags of an emitted record are the sorted list,
\* joined with ', ', of the categories Arts, Business, Education, Health and
\* STEM one of whose keywords occurs in the lowercased 'name description';
\* the tag is 'General' exactly when no category matches, and 'General' is
\* never joined to another tag.
C17_Matches(course, keywords) ==
    LET content == Lower(NameOf(course)) \o <<" ">> \o Lower(DescriptionOf(course))
    IN  \E i \in DOMAIN keywords : Contains(content, keywords[i])

C17_Categories(course) ==
    {row.tag : row \in {r \in Range(TagTable) : C17_Matches(course, r.keywords)}}

C17_TagAssignment ==
    Returned_ =>
        \A k \in DOMAIN enhanced_courses :
            LET e == enhanced_courses[k]
                tags == ItemsOf(TagsOf(e))
                expected == C17_Categories(e)
            IN  /\ Range(tags) = (IF expected = {} THEN {General} ELSE expected)
                /\ \A i, j \in DOMAIN tags : i < j => StrLess(tags[i], tags[j])
                /\ General \in Range(tags) <=> expected = {}
                /\ General \in Range(tags) => Len(tags) = 1

\* an emitted record with two tags
C17_Witness ==
    /\ Returned_
    /\ Len(enhanced_courses) = 1
    /\ TagsOf(enhanced_courses[1]) = <<"A", "r", "t", "s", ",", " ", "S", "T", "E", "M">>

\* C18: keyword extraction.  The keywords of an emitted record (the items of
\* its comma-joined keywords) contain every word of its name longer than 2
\* characters and every word of its description longer than 3 characters,
\* lowercased, except the stop words; no stop word is a keyword; and the
\* items are in ascending order, none repeated.
C18_StopWords ==
    {<<"t", "h", "e">>,
     <<"a", "n", "d">>,
     <<"f", "o", "r">>,
     <<"a", "r", "e">>,
     <<"w", "i", "t", "h">>,
     <<"t", "h", "i", "s">>,
     <<"t", "h", "a", "t">>,
     <<"c", "o", "u", "r", "s", "e">>,
     <<"p", "r", "o", "g", "r", "a", "m", "m", "e">>,
     <<"p", "r", "o", "g", "r", "a", "m">>}

C18_Words(s, min) == {Lower(w) : w \in {x \in Range(WordsOf(s)) : Len(x) > min}}

C18_KeywordExtraction ==
    Returned_ =>
        \A k \in DOMAIN enhanced_courses :
            LET e == enhanced_courses[k]
                keywords == ItemsOf(KeywordsOf(e))
            IN  /\ (C18_Words(NameOf(e), 2) \cup C18_Words(DescriptionOf(e), 3)) \ C18_StopWords
                     \subseteq Range(keywords)
                /\ Range(keywords) \cap C18_StopWords = {}
                /\ \A i, j \in DOMAIN keywords : i < j => StrLess(keywords[i], keywords[j])

\* an emitted record whose name and description hold stop words and words
\* that are kept
C18_Witness ==
    /\ Returned_
    /\ Len(enhanced_courses) = 1
    /\ NameOf(enhanced_courses[1]) = <<"C", "o", "u", "r", "s", "e", " ", "f", "o", "r", " ", "a", "r", "t">>
    /\ DescriptionOf(enhanced_courses[1]) = <<"w", "i", "t", "h", " ", "t", "h", "i", "s", " ", "f", "i", "n", "a", "n", "c", "e", " ", "c", "o", "u", "r", "s", "e">>
    /\ KeywordsOf(enhanced_courses[1]) = <<" ", "b", "u", "s", "i", "n", "e", "s", "s", ",", " ", "a", "r", "t", ",", " ", "a", "r", "t", "s", ",", " ", "f", "i", "n", "a", "n", "c", "e">>

\* the cleaned record from which the k-th emitted record was made
CleanedOf(k) == cleaned_courses[unique_pos[k]]

C19_Leftmost(c, IsAt(_, _, _, _), i, l, d) ==
    /\ IsAt(c, i, l, d)
    /\ \A i2 \in 1..(i - 1), l2 \in 2..4, d2 \in 3..4 : ~IsAt(c, i2, l2, d2)
    /\ (d = 3 => ~IsAt(c, i, l, 4))

\* C19 as claimed: CAO-code backfill.  For an emitted record whose cleaned
\* cao_code is empty, the emitted cao_code is the occurrence of 2-4 letters
\* followed by 3-4 digits (the pattern standardize_cao_code searches for)
\* found in the cleaned name whenever the name contains one, and is empty
\* only when the name contains none; a non-empty cleaned cao_code is emitted
\* as it is.
C19_BackfillFromName ==
    Returned_ =>
        \A k \in DOMAIN enhanced_courses :
            LET name == Upper(NameOf(CleanedOf(k)))
                out == CaoOf(enhanced_courses[k])
            IN  IF CaoOf(CleanedOf(k)) # <<>> THEN out = CaoOf(CleanedOf(k))
                ELSE /\ C11_ContainsCao(name) =>
                          \E i \in 1..Len(name), l \in 2..4, d \in 3..4 :
                              /\ C19_Leftmost(name, C11_IsCaoAt, i, l, d)
                              /\ out = SubSeq(name, i, i + l + d - 1)
                     /\ out = <<>> => ~C11_ContainsCao(name)

\* the pattern as a whole word: no letter, digit or underscore before or after
C19_IsCaoWordAt(c, i, l, d) ==
    /\ C11_IsCaoAt(c, i, l, d)
    /\ (i = 1 \/ ~IsWord(c[i - 1]))
    /\ (i + l + d - 1 = Len(c) \/ ~IsWord(c[i + l + d]))

C19_ContainsCaoWord(c) ==
    \E i \in 1..Len(c), l \in 2..4, d \in 3..4 : C19_IsCaoWordAt(c, i, l, d)

\* C19 as amended: for an emitted record whose cleaned cao_code is empty or
\* absent, the emitted cao_code is the leftmost occurrence, in the uppercased
\* cleaned name, of 2-4 letters followed by 3-4 digits that stands as a whole
\* word (no letter, digit or underscore directly before or after it), and it
\* is empty exactly when the name has no such whole-word occurrence, also
\* when the pattern occurs inside a longer run of letters or digits; a
\* non-empty cleaned cao_code is emitted as it is.
C19_BackfillWholeWord ==
    Returned_ =>
        \A k \in DOMAIN enhanced_courses :
            LET name == Upper(NameOf(CleanedOf(k)))
                out == CaoOf(enhanced_courses[k])
            IN  /\ "cao_code" \in DOMAIN enhanced_courses[k]
                /\ IF CaoOf(CleanedOf(k)) # <<>> THEN out = CaoOf(CleanedOf(k))
                   ELSE IF C19_ContainsCaoWord(name)
                        THEN \E i \in 1..Len(name), l \in 2..4, d \in 3..4 :
                                 /\ C19_Leftmost(name, C19_IsCaoWordAt, i, l, d)
                                 /\ out = SubSeq(name, i, i + l + d - 1)
                        ELSE out = <<>>

\* a record with an empty cleaned cao_code whose name holds the code as a
\* word is emitted with that code
C19_Witness ==
    /\ Returned_
    /\ Len(enhanced_courses) = 1
    /\ "cao_code" \in DOMAIN CleanedOf(1)
    /\ CaoOf(CleanedOf(1)) = <<>>
    /\ NameOf(CleanedOf(1)) = <<"a", "b", "1", "2", "3", " ", "F", "i", "l", "m">>
    /\ CaoOf(enhanced_courses[1]) = <<"A", "B", "1", "2", "3">>

\* C20: statistics are scoped to one invocation.  After clean_course_data
\* was called with a batch A and then, on the same instance, returns from a
\* call with a batch B, validation_stats (total_records, valid_records,
\* duplicates_removed and the rejection reasons) is what a fresh instance
\* holds after a call with B alone.
C20_StatsScopedToOneCall ==
    (Returned_ /\ calls >= 2) =>
        validation_stats = clean_course_data(courses, NewStats).stats

\* C21: pure batch transform.  From the entry of clean_course_data to its
\* end, no step changes the argument: the list keeps its length and order and
\* every dict of it keeps its keys and values (courses holds the dicts of the
\* argument as the assignments of the steps leave them).
C21_ArgumentUnchanged == [][pc # "new" => courses' = courses]_vars

\* a call returned a record that cleaning and enrichment made different from
\* the raw record, which is still in the argument as it was passed
C21_Witness ==
    /\ Returned_
    /\ Len(courses) = 1
    /\ Len(enhanced_courses) = 1
    /\ courses[1].name = PyStr(<<" ", "N", "u", "r", "s", "i", "n", "g", " ", "a", "n", "d", " ", " ",
                                "B", "u", "s", "i", "n", "e", "s", "s", " ">>)
    /\ cleaned_ids[1] # 1
    /\ cleaned_courses[1] # courses[1]
    /\ enhanced_courses[1] # courses[1]

RECURSIVE C22_Value(_)
C22_Value(digits) ==
    IF digits = <<>> THEN 0
    ELSE 10 * C22_Value(SubSeq(digits, 1, Len(digits) - 1))
         + (CHOOSE v \in 0..9 : DigitSeq[v + 1] = digits[Len(digits)])

C22_FirstInteger(d) ==
    LET i == CHOOSE x \in DOMAIN d : d[x] \in Digits /\ \A y \in 1..(x - 1) : d[y] \notin Digits
        j == CHOOSE x \in i..Len(d) :
                /\ \A y \in i..x : d[y] \in Digits
                /\ (x = Len(d) \/ d[x + 1] \notin Digits)
    IN  C22_Value(SubSeq(d, i, j))

C22_IsTitleOf(out, low) ==
    /\ Len(out) = Len(low)
    /\ \A i \in DOMAIN low :
         out[i] = IF i > 1 /\ low[i - 1] \in LowerLetters THEN low[i] ELSE UpperChar(low[i])

\* what the claim says of standardize_duration(d) = out, text being the text
\* that is title-cased when d has no unit word or no digit
C22_Holds(d, text, out) ==
    LET low == Lower(d)
        has(w) == Contains(low, w)
        year == <<"y", "e", "a", "r">>
        month == <<"m", "o", "n", "t", "h">>
        week == <<"w", "e", "e", "k">>
        unit == IF has(year) THEN <<"Y", "e", "a", "r">>
                ELSE IF has(month) THEN <<"M", "o", "n", "t", "h">>
                ELSE <<"W", "e", "e", "k">>
    IN  IF d = <<>> THEN out = <<>>
        ELSE IF (has(year) \/ has(month) \/ has(week)) /\ \E i \in DOMAIN d : d[i] \in Digits
        THEN LET n == C22_FirstInteger(d)
             IN  out = NatStr(n) \o <<" ">> \o unit \o (IF n > 1 THEN <<"s">> ELSE <<>>)
        ELSE C22_IsTitleOf(out, text)

\* C22 as claimed: for a duration d that contains 'year', 'month' or 'week'
\* in any case and at least one digit, standardize_duration(d) is
\* '<n> <Unit>' with n the first integer in d, 's' added iff n > 1, the unit
\* being Year before Month before Week; for a d without unit word or without
\* digit it is d lowercased then title-cased; for the empty d it is empty.
C22_DurationTitleCased ==
    \A k \in DOMAIN ret :
        ret[k].fn = "standardize_duration" => C22_Holds(arg.s, Lower(arg.s), ret[k].out)

\* C22 as amended: as claimed, except that for a d without unit word or
\* without digit the result is d lowercased, stripped of its leading and
\* trailing whitespace, then title-cased (a letter is uppercase exactly when
\* no letter precedes it); n is the first run of digits of d read as an
\* integer.
C22_DurationNormalized ==
    \A k \in DOMAIN ret :
        ret[k].fn = "standardize_duration" =>
            C22_Holds(arg.s, Strip(Lower(arg.s)), ret[k].out)

\* 'Part' from ' part ', and '10 Years' is covered by the same formula
C22_Witness ==
    /\ arg = PyStr(<<" ", "p", "a", "r", "t", " ">>)
    /\ Len(ret) = 1
    /\ ret[1].fn = "standardize_duration"
    /\ ret[1].out = <<"P", "a", "r", "t">>

\* C23: the output is duplicate-free for the dedup key of its final records.
\* No two records emitted by clean_course_data have the same lowercased name
\* and the same cao_code as emitted, also when the cao_code of one of them
\* was filled in from its name.
C23_OutputDuplicateFree ==
    Returned_ =>
        \A i, j \in DOMAIN enhanced_courses :
            i < j =>
                ~(/\ Lower(NameOf(enhanced_courses[i])) = Lower(NameOf(enhanced_courses[j]))
                  /\ CaoOf(enhanced_courses[i]) = CaoOf(enhanced_courses[j]))

\* the raw record from which the k-th emitted record was made
RawOf(k) == courses[unique_pos[k]]

C24_IsCaoCode(code) ==
    \E l \in 2..4, d \in 3..4 : Len(code) = l + d /\ C11_IsCaoAt(code, 1, l, d)

\* C24 as claimed: every emitted record has a cao_code that is empty or is
\* exactly 2-4 uppercase letters followed by 3-4 digits, whatever the raw
\* cao_code was.
C24_CaoPatternOrEmpty ==
    Returned_ =>
        \A k \in DOMAIN enhanced_courses :
            LET out == CaoOf(enhanced_courses[k])
            IN  out = <<>> \/ C24_IsCaoCode(out)

\* C24 as amended: every emitted record has a cao_code that is empty, or is
\* exactly 2-4 uppercase letters followed by 3-4 digits, or, when the raw
\* cao_code, stripped and uppercased, holds no 2-4 letters immediately
\* followed by 3-4 digits, is that text with every character other than A-Z
\* and 0-9 removed.
C24_CaoPatternOrFallback ==
    Returned_ =>
        \A k \in DOMAIN enhanced_courses :
            LET out == CaoOf(enhanced_courses[k])
                raw == Get(RawOf(k), "cao_code", PyNone)
                c == Upper(Strip(StrOf(raw)))
            IN  \/ out = <<>>
                \/ C24_IsCaoCode(out)
                \/ /\ Truthy(raw)
                   /\ ~C11_ContainsCao(c)
                   /\ out = SelectSeq(c, LAMBDA x : x \in UpperLetters \cup Digits)

\* a raw cao_code '1AB-123', in which a hyphen stands between the letters and
\* the digits, is emitted as '1AB123'
C24_Witness ==
    /\ Returned_
    /\ \E k \in DOMAIN enhanced_courses :
         /\ Get(RawOf(k), "cao_code", PyNone) = PyStr(<<"1", "A", "B", "-", "1", "2", "3">>)
         /\ CaoOf(enhanced_courses[k]) = <<"1", "A", "B", "1", "2", "3">>

\* C25: every tag of an emitted record (the items of its tags field, split on
\* ', '), lowercased, is one of the items of the record's keywords field.
C25_TagsAmongKeywords ==
    Returned_ =>
        \A k \in DOMAIN enhanced_courses :
            \A i \in DOMAIN ItemsOf(TagsOf(enhanced_courses[k])) :
                Lower(ItemsOf(TagsOf(enhanced_courses[k]))[i])
                    \in Range(ItemsOf(KeywordsOf(enhanced_courses[k])))

\* C26: after a call returns, the rejection-reasons mapping has as many
\* entries as the batch has records rejected by validation.
C26_EveryRejectionReported ==
    Returned_ =>
        Cardinality(DOMAIN validation_stats.validation_errors)
            = Len(cleaned_courses) - Len(valid_courses)

C27_Cleaners == {"clean_nfq_level", "clean_points", "clean_college_id"}

C27_IsValid(fn, n) ==
    CASE fn = "clean_nfq_level" -> n \in 5..10
      [] fn = "clean_points" -> n \in 0..625
      [] fn = "clean_college_id" -> n > 0

C27_Default(fn) ==
    CASE fn = "clean_nfq_level" -> 8
      [] fn = "clean_points" -> 0
      [] fn = "clean_college_id" -> 1

C27_Apply(fn, v) ==
    CASE fn = "clean_nfq_level" -> clean_nfq_level(v)
      [] fn = "clean_points" -> clean_points(v)
      [] fn = "clean_college_id" -> clean_college_id(v)

\* C27 as claimed: each numeric cleaner returns x for every valid integer x
\* (nfq_level in {5,...,10}, points in [0,625], college id > 0) and its
\* default (8, 0, 1) for everything else.
C27_IdentityOrConstant ==
    \A k \in DOMAIN ret :
        ret[k].fn \in C27_Cleaners =>
            ret[k].out =
                Returned(IF arg.t = "int" /\ C27_IsValid(ret[k].fn, arg.n)
                         THEN arg.n ELSE C27_Default(ret[k].fn))

\* C27 as amended: each numeric cleaner returns x for every valid integer x;
\* its default for null, for an integer that is not valid, for text that is
\* not an integer literal and for NaN; for an integer literal, a finite float
\* (truncated toward zero) or a boolean, the integer it stands for when that
\* integer is valid and the default otherwise; on an infinite float it raises
\* OverflowError. Whenever it returns, the result is valid and the cleaner
\* maps it to itself.
C27_IdentityOnValid ==
    \A k \in DOMAIN ret :
        ret[k].fn \in C27_Cleaners =>
            LET fn == ret[k].fn
                out == ret[k].out
                n == IntOf(arg)
            IN  /\ (arg.t = "int" /\ C27_IsValid(fn, arg.n)) => out = Returned(arg.n)
                /\ (arg.t = "int" /\ ~C27_IsValid(fn, arg.n)) => out = Returned(C27_Default(fn))
                /\ arg.t \in {"none", "nan"} => out = Returned(C27_Default(fn))
                /\ (arg.t = "str" /\ n.exc # "none") => out = Returned(C27_Default(fn))
                /\ (arg.t \in {"str", "float", "bool"} /\ n.exc = "none") =>
                       out = Returned(IF C27_IsValid(fn, n.v) THEN n.v
                                      ELSE C27_Default(fn))
                /\ arg.t = "inf" => out = Raised("OverflowError")
                /\ out.exc = "none" =>
                       /\ C27_IsValid(fn, out.v)
                       /\ C27_Apply(fn, PyInt(out.v)) = out

\* clean_points(7.5) returned 7
C27_Witness ==
    /\ arg = PyFloat(15)
    /\ Len(ret) = 1
    /\ ret[1].fn = "clean_points"
    /\ ret[1].out = Returned(7)

\* C28: the result of clean_course_data depends only on the batch of that
\* call: any two calls on the same instance with equal batches returned equal
\* results, so a record emitted by an earlier call is emitted again by a later
\* call that is given it.
C28_NoCrossCallDedup ==
    \A i, j \in DOMAIN outputs :
        outputs[i].batch = outputs[j].batch => outputs[i].out = outputs[j].out

\* two calls with the same batch have returned, each emitting a record
C28_Witness ==
    /\ Len(outputs) = 2
    /\ outputs[1].batch = outputs[2].batch
    /\ outputs[1].out # <<>>
    /\ outputs[2].out # <<>>

\* C29: for any two records that passed cleaning and validation,
\* remove_duplicates computes equal keys if and only if their lowercased
\* names are equal and their cao_codes are equal; a record without a code
\* never has the key of a record with a code.
C29_DedupKeyInjective ==
    Validated_ =>
        \A i, j \in DOMAIN valid_courses :
            LET a == valid_courses[i]
                b == valid_courses[j]
            IN  /\ (DedupKey(a) = DedupKey(b)) <=>
                       (Lower(NameOf(a)) = Lower(NameOf(b)) /\ CaoOf(a) = CaoOf(b))
                /\ (CaoOf(a) = <<>> /\ CaoOf(b) # <<>>) => DedupKey(a) # DedupKey(b)

\* a validated record whose raw name was 'Abc|123', next to the validated
\* record named 'Abc' with the code '123'
C29_Witness ==
    /\ Validated_
    /\ Len(valid_courses) = 2
    /\ courses[valid_pos[1]].name = PyStr(<<"A", "b", "c", "|", "1", "2", "3">>)
    /\ CaoOf(valid_courses[1]) = <<>>
    /\ NameOf(valid_courses[2]) = <<"A", "b", "c">>
    /\ CaoOf(valid_courses[2]) = <<"1", "2", "3">>
    /\ DedupKey(valid_courses[2]) = <<"a", "b", "c", "|", "1", "2", "3">>
    /\ DedupKey(valid_courses[1]) = <<"a", "b", "c", "1", "2", "3">>

\* the raw tags values a batch is rewritten with; Absent removes the key
C30_OtherTags ==
    {Absent, PyNone, PyInt(3), PyInf,
     PyStr(<<"B", "u", "s", "i", "n", "e", "s", "s", ",", " ", "|", "x">>)}

C30_WithTags(course, t) ==
    IF t = Absent THEN [k \in DOMAIN course \ {"tags"} |-> course[k]]
    ELSE SetKey(course, "tags", t)

\* C30: two batches that differ only in the raw tags values of their records
\* give the same result: when a call returns, its result is the result of
\* clean_course_data on the batch with every record's tags replaced by any
\* other value, or removed.
C30_InputTagsIgnored ==
    Returned_ =>
        \A t \in C30_OtherTags :
            LET other == [i \in DOMAIN courses |-> C30_WithTags(courses[i], t)]
                r == clean_course_data(other, NewStats)
            IN  r.exc = "none" /\ r.out = enhanced_courses

\* a raw record with tags 'Abc' and description 'data' was emitted with the
\* tags 'STEM'
C30_Witness ==
    /\ Returned_
    /\ \E k \in DOMAIN enhanced_courses :
         /\ Get(RawOf(k), "tags", PyNone) = PyStr(<<"A", "b", "c">>)
         /\ TagsOf(enhanced_courses[k]) = <<"S", "T", "E", "M">>

====
